---- MODULE Spec2Model ----
(***************************************************************************)
(* Verification model of python-cellaserv2, the cellaserv client runtime:  *)
(*   cellaserv/client.py   AbstractClient, SynClient, AsynClient           *)
(*   cellaserv/service.py  Service (dispatch, dependency wait, startup)    *)
(*   cellaserv.py          the earlier text-mode AsynClient (JSON lines)    *)
(*                                                                         *)
(* The specifications of this module, each on its own variables:           *)
(*   SpecDispatch   the dispatch of incoming Requests by Service.on_request *)
(*   SpecStartup    Service.__init__: the dependency wait against a broker  *)
(*   SpecRequest    the blocking SynClient.request loop                     *)
(*   SpecAlloc      the allocation of request ids by several threads        *)
(*   SpecLoop       a process that builds several Services, then loops      *)
(*   SpecAsynFrame  the framing of AsynClient over asynchat                 *)
(*   SpecSynFrame   the framing of SynClient.request over recv              *)
(*   SpecFanout     the callbacks of an AsynClient for a Publish            *)
(*   SpecReplyData  the value a handler returns, up to the blocking caller  *)
(*   SpecCorrelate  non-blocking requests of a Service and their Replies    *)
(*   SpecConfig     a ConfigVariable: the first fetch, then the updates     *)
(*   SpecPush       the frames the threads of a Service push on its socket  *)
(*   SpecShared     two threads making blocking requests on one SynClient   *)
(*   SpecIdRange    the values the counter of request ids takes             *)
(*   SpecArgs       the arguments on_request passes to a handler            *)
(*   SpecTables     the tables of a Service while it dispatches             *)
(*   SpecPayload    the data field of the envelopes a client sends          *)
(*   SpecZeroFrame  the framing of AsynClient, frames of length 0 included  *)
(*   SpecEvents     the events a Service class declares, from its           *)
(*                  definition to the Publishes it receives                 *)
(*   SpecText       the text-mode AsynClient: lines of JSON, notifications  *)
(* Each keeps the variables of the others at their initial value; the      *)
(* LiveSpec variants add the fairness of the steps.                        *)
(***************************************************************************)
EXTENDS Integers, Sequences, FiniteSets, TLC

VARIABLES
    \* ---- SpecDispatch: one Service instance in its dispatch loop
    identification,   \* self.identification of the instance
    alive,            \* the process runs (FALSE once 'kill' has run)
    cur,              \* the message dispatched last (NoMessage at start)
    sent,             \* the envelopes sent while cur was dispatched, in order
    calls,            \* the handler invocations made while cur was dispatched
    received,         \* id -> number of Requests delivered to on_request
    replied,          \* id -> number of Replies sent with that id
    published,        \* number of Publishes dispatched
    raises            \* number of Requests whose handler raised

VARIABLES
    \* ---- SpecRequest: one SynClient and the envelopes its socket delivers
    seq_id,           \* self._request_seq_id
    rpc,              \* where the caller is: "idle", "waiting", "returned", "raised"
    req_id,           \* the id request() allocated for the call in progress
    inbox,            \* envelopes the socket holds, not yet read
    arrived,          \* number of envelopes that reached the socket
    outcome,          \* what the last call returned or raised
    last_reply,       \* the envelope whose reading ended the last call
    ncalls            \* number of request() calls made

VARIABLES
    \* ---- SpecStartup: Service.__init__ of a service with dependencies
    spc,                    \* where the constructor is
    deps,                   \* keys of cls._service_dependencies
    services_unregistered,  \* the local set of _setup_dependencies
    cb_runs,                \* dependency -> times its callbacks were run
    to_broker,              \* envelopes written to the socket, not yet processed
    sent_log,               \* every envelope written to the socket, in order
    threads,                \* the worker threads started, in order
    registered,             \* broker: the services registered
    subscriptions,          \* broker: the events this connection subscribed to
    observed,               \* services seen in the list reply or a new-service Publish
    discarded,              \* envelopes the list-services request read and dropped
    strays                  \* number of unrelated envelopes the broker sent

VARIABLES
    \* ---- SpecAlloc: threads calling AbstractClient.request on one client
    tpc,              \* thread -> "idle", "assigned" (line 146 done), "loaded"
    tid,              \* thread -> request.id of its call in progress
    tload,            \* thread -> the value it read for `+= 1`
    allocated,        \* the ids assigned to requests, in order
    returned,         \* number of request() calls that returned
    overlap           \* a call began while another one was in progress

VARIABLES
    \* ---- SpecLoop: a process that builds several Services, then loops
    has_require,      \* the class is decorated with @Service.require
    has_config,       \* the class declares a ConfigVariable
    constructing,     \* the instance whose constructor runs (NInstances + 1: none)
    step,             \* where that constructor is
    config_cbs,       \* cls._service_dependencies[('config', '')]: the instance
                      \* whose syn_client each callback captured
    cb_idx,           \* the callback the constructor calls next
    fetches,          \* instance -> fetches of the ConfigVariable its constructor made
    socket_map,       \* asyncore.socket_map: the instances attached to the loop
    syn_reads,        \* instance -> blocking requests completed on its socket
    asyn_reads,       \* instance -> envelopes the loop read from its socket
    queue,            \* instance -> envelopes on its socket, not yet read
    delivered,        \* number of envelopes the broker has sent
    lost,             \* envelopes read and dropped by a blocking request
    loop,             \* asyncore.loop(): "off", "poll", "handler"
    running           \* number of handlers that are executing

VARIABLES
    \* ---- SpecAsynFrame, SpecSynFrame: a reader and the bytes of its socket
    frames_sent,      \* the bodies of the frames the peer wrote, in order
    wire,             \* the bytes written and not yet received
    nreceived,        \* number of bytes received so far
    eof,              \* the peer closed the stream: recv returns b"" at its end
    chan,             \* AsynClient: terminator, _read_header, _ibuffer
    messages,         \* the bodies handed on as whole messages, in order
    sy_pc,            \* SynClient.request: "header", "body", "raised"
    msg_len,          \* SynClient.request: the bytes of the body still to read
    msg_buf,          \* SynClient.request: msg, the bytes of the body read so far
    spin              \* parity of the recv calls that returned b"" in the body loop

VARIABLES
    \* ---- SpecFanout: the callbacks of an AsynClient and a Publish it receives
    wrapping,         \* callbacks are registered through Service._event_wrap
    raising,          \* the callbacks whose function raises when it is called
    events_cb,        \* self._events_cb: event -> callbacks, in order
    events_pattern_cb,\* self._events_pattern_cb: pattern -> callbacks, in order
    fan_pub,          \* the Publish the last operation dispatched, if it did
    fan_calls,        \* the callbacks the last operation invoked, in order
    fan_sent,         \* the envelopes the last operation sent
    fan_closed        \* an exception left on_message_recieved: channel closed

VARIABLES
    \* ---- SpecReplyData: a handler's return value, from the service to a caller
    rd_pc,            \* "idle", "sent" (the service sent its Reply), "read"
    rd_req,           \* the Request the service dispatched
    rd_out,           \* what the handler did
    rd_wire,          \* the envelopes the service sent for it
    rd_result,        \* what the blocking caller's request() returned or raised
    rd_trips          \* number of round trips made

VARIABLES
    \* ---- SpecCorrelate: requests sent through the AsynClient side of a Service
    co_reply_cb,      \* self._reply_cb: the ids that have a completion callback
    co_registered,    \* the ids a completion callback was ever stored for
    co_invoked,       \* id -> times the callback stored for it was invoked
    co_sent,          \* the ids of the Requests sent, in order
    co_socket,        \* the Replies on the socket, not yet read by the loop
    co_answered,      \* the ids the broker has answered
    co_dispatched     \* the ids whose Reply on_message_recieved has dispatched

VARIABLES
    \* ---- SpecConfig: a Service with a ConfigVariable, and the 'config' service
    cf_pc,            \* the service: "start", "getting", "got", "ready"
    cf_value,         \* variable.value
    cf_option,        \* config service: the current value of the option
    cf_to_broker,     \* envelopes the service wrote, not yet processed
    cf_subscribed,    \* broker: the connection is subscribed to the option's event
    cf_socket,        \* envelopes on the socket of the service, not yet read
    cf_updates        \* number of updates of the option made

VARIABLES
    \* ---- SpecPush: the threads of a Service that send on its socket
    ps_pc,            \* sender -> "idle", "header" (header pushed, body not yet)
    ps_frame,         \* sender -> the frame it is sending
    ps_fifo,          \* async_chat.producer_fifo and the wire after it, in order
    ps_frames         \* number of frames whose sending has begun

VARIABLES
    \* ---- SpecShared: threads making blocking requests on one SynClient
    sh_pc,            \* caller -> "idle", "waiting", "returned", "raised"
    sh_id,            \* caller -> req_id of its call in progress or last made
    sh_got,           \* caller -> the Reply that ended its last call
    sh_socket,        \* the envelopes on the shared socket, not yet read
    sh_answered,      \* the ids the broker has answered
    sh_dropped,       \* the Replies read and discarded, with the caller that did
    sh_calls          \* number of request() calls made

VARIABLES
    \* ---- SpecIdRange: the counter of a client over many requests
    ir_seq,           \* self._request_seq_id, as two 16-bit limbs (hi, lo)
    ir_field,         \* the type of Request.id in the generated protobuf module
    ir_assigned,      \* the values request() took for request.id, in order
    ir_returned,      \* number of request() calls that returned their id
    ir_errors         \* number of request() calls that raised

VARIABLES
    \* ---- SpecArgs: the handler invocations of the Services of a process
    ar_log            \* the invocations made: receiver, bound instance, arguments

VARIABLES
    \* ---- SpecTables: the tables of a running Service
    tb_actions,            \* cls._actions: method -> handler
    tb_events,             \* cls._events: event -> handler
    tb_events_cb,          \* self._events_cb: event -> callbacks
    tb_events_pattern_cb,  \* self._events_pattern_cb: pattern -> callbacks
    tb_reply_cb,           \* self._reply_cb: the ids that have a completion callback
    tb_invoked,            \* id -> times a completion callback was invoked for it
    tb_chan,               \* the reader: terminator, _read_header, _ibuffer
    tb_open,               \* the channel is open (no exception reached asyncore)
    tb_cur,                \* the message dispatched last
    tb_calls,              \* the callbacks and handlers it made run, in order
    tb_sent,               \* the envelopes sent while it was dispatched
    tb_replies,            \* number of Replies dispatched
    tb_dispatched          \* number of messages dispatched

VARIABLES
    \* ---- SpecEvents: a Service class, its event table and its Event fields
    ev_class,         \* the members of the class, as inspect.getmembers lists them
    ev_pc,            \* "class" (defined), "built" (metaclass ran), "ready", "closed"
    ev_events,        \* cls._events: event -> the member stored for it
    ev_events_cb,     \* self._events_cb: event -> callbacks
    ev_subscribed,    \* the Subscribe envelopes sent, in order
    ev_fields,        \* Event field -> is_set() and data
    ev_pub,           \* the Publish dispatched last
    ev_calls,         \* the members it made run, in order
    ev_sent,          \* the envelopes sent while it was dispatched
    ev_recent,        \* Event field -> the last Publish of its set or clear event
    ev_applied,       \* the same, among the Publishes with keyword data only
    ev_publishes      \* number of Publishes dispatched

VARIABLES
    \* ---- SpecPayload: the envelopes an AbstractClient sends
    pl_seq,           \* self._request_seq_id
    pl_log            \* the calls made and the envelope each one sent, in order

VARIABLES
    \* ---- SpecText: a text-mode AsynClient and the peer that writes to it
    tx_sent,          \* the messages the peer encoded and wrote, in order
    tx_wire,          \* the bytes written and not yet received
    tx_nreceived,     \* number of bytes received so far
    tx_ibuffer,       \* self._ibuffer, the chunks collected (joined)
    tx_open,          \* the channel is open (no exception reached asyncore)
    tx_delivered,     \* the messages handed to message_recieved, in order
    tx_ack_cb,        \* self._ack_cb
    tx_notify_cb,     \* self._notify_cb: key -> callbacks
    tx_called,        \* the callbacks called and the message each was given
    tx_registered,    \* the (notification, callback) pairs given to connect_notify
    tx_expected       \* the calls due to those pairs for the messages delivered

dispatchVars ==
    <<identification, alive, cur, sent, calls, received, replied, published, raises>>

requestVars ==
    <<seq_id, rpc, req_id, inbox, arrived, outcome, last_reply, ncalls>>

\* The variables of SynClient.request that the allocation leaves alone.
requestRest == <<rpc, req_id, inbox, arrived, outcome, last_reply, ncalls>>

startupVars ==
    <<spc, deps, services_unregistered, cb_runs, to_broker, sent_log, threads,
      registered, subscriptions, observed, discarded, strays>>

allocVars == <<tpc, tid, tload, allocated, returned, overlap>>

\* The variables of the parts added to the first three.
loopVars ==
    <<has_require, has_config, constructing, step, config_cbs, cb_idx, fetches,
      socket_map, syn_reads, asyn_reads, queue, delivered, lost, loop, running>>

frameVars ==
    <<frames_sent, wire, nreceived, eof, chan, messages, sy_pc, msg_len, msg_buf, spin>>

fanVars ==
    <<wrapping, raising, events_cb, events_pattern_cb, fan_pub, fan_calls,
      fan_sent, fan_closed>>

replyVars == <<rd_pc, rd_req, rd_out, rd_wire, rd_result, rd_trips>>

corrVars ==
    <<co_reply_cb, co_registered, co_invoked, co_sent, co_socket, co_answered,
      co_dispatched>>

cfgVars ==
    <<cf_pc, cf_value, cf_option, cf_to_broker, cf_subscribed, cf_socket, cf_updates>>

pushVars == <<ps_pc, ps_frame, ps_fifo, ps_frames>>

sharedVars ==
    <<sh_pc, sh_id, sh_got, sh_socket, sh_answered, sh_dropped, sh_calls>>

idVars == <<ir_seq, ir_field, ir_assigned, ir_returned, ir_errors>>

argVars == <<ar_log>>

tableVars ==
    <<tb_actions, tb_events, tb_events_cb, tb_events_pattern_cb, tb_reply_cb,
      tb_invoked, tb_chan, tb_open, tb_cur, tb_calls, tb_sent, tb_replies,
      tb_dispatched>>

eventVars ==
    <<ev_class, ev_pc, ev_events, ev_events_cb, ev_subscribed, ev_fields, ev_pub,
      ev_calls, ev_sent, ev_recent, ev_applied, ev_publishes>>

payloadVars == <<pl_seq, pl_log>>

textVars ==
    <<tx_sent, tx_wire, tx_nreceived, tx_ibuffer, tx_open, tx_delivered, tx_ack_cb,
      tx_notify_cb, tx_called, tx_registered, tx_expected>>

\* The variables of the parts added last.
finalVars == <<argVars, tableVars, eventVars, payloadVars, textVars>>

\* The variables of the parts added after those.
lateVars == <<replyVars, corrVars, cfgVars, pushVars, sharedVars, idVars, finalVars>>

extraVars == <<allocVars, loopVars, frameVars, fanVars, lateVars>>

\* The variables of the first three parts.
coreVars == <<dispatchVars, requestVars, startupVars>>

vars == <<coreVars, extraVars>>

\* The variables of the first eight specifications.
oldVars == <<coreVars, allocVars, loopVars, frameVars, fanVars>>

\* What an action on the reply-data variables leaves alone.
notReply == <<oldVars, corrVars, cfgVars, pushVars, sharedVars, idVars, finalVars>>

\* What an action on the ConfigVariable variables leaves alone.
notCfg == <<oldVars, replyVars, corrVars, pushVars, sharedVars, idVars, finalVars>>

\* What an action on the sending variables leaves alone.
notPush == <<oldVars, replyVars, corrVars, cfgVars, sharedVars, idVars, finalVars>>

\* What an action on the id-range variables leaves alone.
notId == <<oldVars, replyVars, corrVars, cfgVars, pushVars, sharedVars, finalVars>>

\* What an action on the shared-client variables leaves alone, seq_id apart.
notShared ==
    <<dispatchVars, requestRest, startupVars, allocVars, loopVars, frameVars,
      fanVars, replyVars, corrVars, cfgVars, pushVars, idVars, finalVars>>

\* What an action on the correlation variables leaves alone: seq_id is the
\* one variable of the older parts it writes.
notCorr ==
    <<dispatchVars, requestRest, startupVars, allocVars, loopVars, frameVars,
      fanVars, replyVars, cfgVars, pushVars, sharedVars, idVars, finalVars>>

\* The variables of the first fourteen specifications.
pastVars ==
    <<oldVars, replyVars, corrVars, cfgVars, pushVars, sharedVars, idVars>>

\* What an action on the argument log leaves alone.
notArgs == <<pastVars, tableVars, eventVars, payloadVars, textVars>>

\* What an action on the tables leaves alone.
notTables == <<pastVars, argVars, eventVars, payloadVars, textVars>>

\* What an action on the envelopes sent leaves alone.
notPayload == <<pastVars, argVars, tableVars, eventVars, textVars>>

\* What an action on the text-mode client leaves alone.
notText == <<pastVars, argVars, tableVars, eventVars, payloadVars>>

\* What an action on the declared events leaves alone.
notEvents == <<pastVars, argVars, tableVars, payloadVars, textVars>>

----------------------------------------------------------------------------
(* Bounds of the model *)

\* Requests delivered to the service in one behaviour.
MaxRequests == 2

\* Publishes delivered to the service in one behaviour.
MaxPublishes == 1

\* Blocking request() calls a client makes in one behaviour.
MaxCalls == 2

\* Envelopes the broker sends to a blocking client in one behaviour.
MaxEnvelopes == 3

\* Envelopes unrelated to the startup that reach a starting service.
MaxStray == 1

\* Ids assigned by request() calls of all threads in one behaviour.
MaxAllocs == 4

\* Service instances a process builds before it enters the loop.
NInstances == 2

\* Envelopes the broker sends to the services of a process in one behaviour.
MaxDelivered == 3

\* Frames the peer writes to a reader in one behaviour.
MaxFrames == 2

\* Bytes of the body of a frame.
MaxBody == 2

\* Callback registrations made on a client in one behaviour.
MaxSubscribes == 3

\* Requests a blocking caller sends to a service in one behaviour.
MaxRoundTrips == 2

\* Non-blocking requests a Service sends in one behaviour.
MaxAsynRequests == 3

\* Updates of a configuration option made in one behaviour.
MaxUpdates == 2

\* Frames the threads of a Service send in one behaviour.
MaxPushes == 4

\* Blocking requests made on a shared client in one behaviour.
MaxSharedCalls == 3

\* Requests made on one client in one behaviour, for the range of its ids.
MaxIdRequests == 4

\* Handler invocations logged in one behaviour.
MaxArgCalls == 2

\* Messages a Service dispatches in one behaviour, for the state of its tables.
MaxTableMessages == 3

\* Envelopes a client sends in one behaviour, for their data field.
MaxSends == 2

\* Lines the peer of a text-mode client writes in one behaviour.
MaxLines == 2

\* connect_notify calls made on a text-mode client in one behaviour.
MaxConnects == 1

\* Publishes a Service with declared events dispatches in one behaviour.
MaxEventPublishes == 2

----------------------------------------------------------------------------
(* Values *)

\* Python's None where a str is expected: a token outside the wire alphabet.
NoneIdent == "<None>"

\* Request ids on the wire (spec scenarios use 7 and 8).
RequestIds == {7, 8}

\* Byte strings carried as Request.data.
B_LIST == "[1,2]"        \* JSON array
B_DICT == "{\"a\":1}"    \* JSON object
B_JUNK == "junk"         \* valid UTF-8, not JSON
B_BADUTF == "\\xff"      \* the byte 0xFF: not valid UTF-8
B_DEEP == "[[[[...]]]]"  \* JSON nested deeper than the interpreter's recursion limit
B_INT == "5"             \* JSON number
B_NULL == "null"         \* JSON null
B_STR == "\"x\""         \* JSON string

DataSamples == {B_LIST, B_DICT, B_JUNK, B_BADUTF, B_DEEP}

\* Method names requests carry; "bogus" is in no action table.
Methods == {"time", "kill", "bogus"}

\* service_identification values requests carry.
WireIdents == {"foo", "bar"}

\* Error kinds of Reply.Error.
ErrorKinds == {"Timeout", "NoSuchService", "NoSuchMethod", "BadArguments", "Custom"}

----------------------------------------------------------------------------
(* Protobuf messages *)

\* A Request as parsed from the wire; has_* is HasField(), an unset field reads "".
Request(id, has_ident, ident, method, has_data, data) ==
    [type |-> "Request", id |-> id, has_service_identification |-> has_ident,
     service_identification |-> ident, method |-> method,
     has_data |-> has_data, data |-> data]

Requests ==
    { Request(i, hi, IF hi THEN si ELSE "", m, hd, IF hd THEN d ELSE "") :
        i \in RequestIds, hi \in BOOLEAN, si \in WireIdents, m \in Methods,
        hd \in BOOLEAN, d \in DataSamples }

\* A Publish as parsed from the wire, and as an envelope sent.
Publish(event, has_data, data) ==
    [type |-> "Publish", event |-> event, has_data |-> has_data, data |-> data]

\* No message dispatched yet.
NoMessage == [type |-> "None"]

\* A Reply envelope (Message.type = Reply with its parsed content).
Reply(id, has_data, data, has_error, etype, has_what, what) ==
    [type |-> "Reply", id |-> id, has_data |-> has_data, data |-> data,
     has_error |-> has_error, error_type |-> etype,
     has_what |-> has_what, what |-> what]

\* reply_to and reply_error_to call send_message once: the envelopes they send.
reply_to(req, data) ==
    << Reply(req.id, data # "None" /\ data # "", IF data = "None" THEN "" ELSE data,
             FALSE, "", FALSE, "") >>

reply_error_to(req, error_type, what) ==
    << Reply(req.id, FALSE, "", TRUE, error_type, what # "None",
             IF what = "None" THEN "" ELSE what) >>

----------------------------------------------------------------------------
(* Decoding of the data of a message *)

\* bytes.decode(): UnicodeDecodeError unless the bytes are valid UTF-8.
Utf8Valid(data) == data # B_BADUTF

\* json.loads(): the texts that parse, and the type of the value they parse to.
JsonType(text) ==
    CASE text = B_LIST -> "list"
      [] text = B_DICT -> "dict"
      [] text = B_INT -> "int"
      [] text = B_NULL -> "NoneType"
      [] text = B_STR -> "str"
      [] text = B_DEEP -> "RuntimeError"   \* recursion limit, no ValueError
      [] OTHER -> "ValueError"

\* A Python value: t its type, text its JSON text (or the raw bytes for t = "bytes").
Value(t, text) == [t |-> t, text |-> text]

\* The empty dict that stands for absent data.
EmptyDict == Value("dict", "{}")

\* [raised |-> TRUE] when the call raises, else the value returned.
Returned(v) == [raised |-> FALSE, value |-> v]
Raised == [raised |-> TRUE, value |-> Value("", "")]

decode_data(data) ==
    IF ~Utf8Valid(data) THEN Returned(Value("bytes", data))
    ELSE IF JsonType(data) = "ValueError" THEN Returned(Value("bytes", data))
    ELSE IF JsonType(data) = "RuntimeError" THEN Raised
    ELSE Returned(Value(JsonType(data), data))

decode_msg_data(msg) ==
    IF msg.has_data THEN decode_data(msg.data) ELSE Returned(EmptyDict)

\* The elements of a decoded list and the items of a decoded dict.
ListItems(v) ==
    IF v.text = B_LIST THEN << Value("int", "1"), Value("int", "2") >> ELSE << >>

DictItems(v) ==
    IF v.text = B_DICT THEN << << "a", Value("int", "1") >> >> ELSE << >>

----------------------------------------------------------------------------
(* Service.on_request *)

\* cls._actions: the default actions of every Service and one declared action.
Actions == {"help", "help_actions", "help_events", "kill", "stacktraces", "time"}

\* What a declared handler may do: return a value (None, a falsy or a truthy
\* JSON-encodable value, a value json.dumps rejects) or raise an Exception.
ReturnValues == {"None", "0", "bar", "object()"}

HandlerOutcomes ==
    { [kind |-> "return", value |-> v] : v \in ReturnValues }
        \cup { [kind |-> "raise", value |-> "boom"] }

\* json.dumps(value).encode(); "TypeError" for a value that is not serializable.
json_dumps(value) ==
    CASE value = "0" -> "0"
      [] value = "bar" -> "\"bar\""
      [] value = "False" -> "false"
      [] value = "''" -> "\"\""
      [] value = "[]" -> "[]"
      [] value = "{}" -> "{}"
      [] OTHER -> "TypeError"

\* Mutant: the test forgets HasField, an unset identification reads "".
WrongIdentification_NoHasField(self_ident, req) ==
    req.service_identification # self_ident

\* The request is addressed to another instance.
WrongIdentification(self_ident, req) ==
    req.has_service_identification /\ req.service_identification # self_ident

\* Mutant: a decoded list is passed as one argument, like any other value.
CallArgs_ListAsOne(data) ==
    IF data.t = "dict" THEN << >> ELSE << data >>

\* Guess type of arguments passing.
CallArgs(data) ==
    IF data.t = "list" THEN ListItems(data)
    ELSE IF data.t = "dict" THEN << >>
    ELSE << data >>

CallKwargs(data) ==
    IF data.t = "dict" THEN DictItems(data) ELSE << >>

\* bound_cb(*args, **kwargs): 'kill' takes no argument and does not return;
\* a declared handler does what `out` says.
CallHandler(method, args, kwargs, out) ==
    IF method = "kill"
    THEN IF args = << >> /\ kwargs = << >>
         THEN [kind |-> "exit", value |-> ""]
         ELSE [kind |-> "raise", value |-> "kill() takes 1 positional argument"]
    ELSE out

\* Mutant: `if reply_data:` in place of `if reply_data is not None:`.
HandlerResult_Truthy(res) ==
    IF res.kind = "raise" THEN res
    ELSE IF res.kind = "exit" THEN res
    ELSE IF res.value \in {"None", "0", "False", "''", "[]", "{}"}
         THEN [kind |-> "return", value |-> "None"]
    ELSE IF json_dumps(res.value) = "TypeError"
         THEN [kind |-> "raise", value |-> "is not JSON serializable"]
         ELSE [kind |-> "return", value |-> json_dumps(res.value)]

\* The try block around the call: the reply data, or the exception caught.
HandlerResult(res) ==
    IF res.kind = "raise" THEN res
    ELSE IF res.kind = "exit" THEN res
    ELSE IF res.value = "None" THEN res
    ELSE IF json_dumps(res.value) = "TypeError"
         THEN [kind |-> "raise", value |-> "is not JSON serializable"]
         ELSE [kind |-> "return", value |-> json_dumps(res.value)]

Dispatched(s, c, e) == [sent |-> s, calls |-> c, exit |-> e]

\* A handler invocation and what the handler did.
Call(name, args, kwargs, res) ==
    [method |-> name, args |-> args, kwargs |-> kwargs, result |-> res]

\* The branches of on_request.
OnWrongIdentification(req) == Dispatched(<< >>, << >>, FALSE)

\* Mutant: the error reply carries no detail.
OnNoSuchMethod_NoDetail(req) ==
    Dispatched(reply_error_to(req, "NoSuchMethod", "None"), << >>, FALSE)

OnNoSuchMethod(req) ==
    Dispatched(reply_error_to(req, "NoSuchMethod", req.method), << >>, FALSE)

OnBadArguments(req) ==
    Dispatched(reply_error_to(req, "BadArguments", req.data), << >>, FALSE)

\* Mutant: the except block lacks its return and falls through to reply_to.
OnHandlerException_NoReturn(req, call, res) ==
    Dispatched(reply_error_to(req, "Custom", res.value) \o reply_to(req, "None"),
               << call >>, FALSE)

\* Mutant: the call is not guarded, the exception leaves on_request.
OnHandlerException_Propagates(req, call, res) ==
    Dispatched(<< >>, << call >>, TRUE)

OnHandlerException(req, call, res) ==
    Dispatched(reply_error_to(req, "Custom", res.value), << call >>, FALSE)

OnHandlerReturn(req, call, res) ==
    Dispatched(reply_to(req, res.value), << call >>, FALSE)

\* on_request(req) of an instance whose identification is self_ident, when
\* the handler (if it runs) does `out`: what is sent, which handler is called,
\* and whether the process is gone.
on_request(self_ident, req, out) ==
    IF WrongIdentification(self_ident, req) THEN OnWrongIdentification(req)
    ELSE IF req.method \notin Actions THEN OnNoSuchMethod(req)
    ELSE IF decode_msg_data(req).raised THEN OnBadArguments(req)
    ELSE LET data == decode_msg_data(req).value
             done == CallHandler(req.method, CallArgs(data), CallKwargs(data), out)
             call == Call(req.method, CallArgs(data), CallKwargs(data), done)
             res == HandlerResult(done)
         IN  IF res.kind = "exit" THEN Dispatched(<< >>, << call >>, TRUE)
             ELSE IF res.kind = "raise" THEN OnHandlerException(req, call, res)
             ELSE OnHandlerReturn(req, call, res)

----------------------------------------------------------------------------
(* Dispatch of a Publish: AsynClient.on_message_recieved and _event_wrap *)

\* cls._events of the service: the event it declares with @Service.event.
Events == {"tick"}

\* Events a Publish delivered to the service may carry.
PublishEvents == {"tick", "log.cellaserv.new-service"}

\* Data a Publish delivered to the service may carry.
PublishData == {B_DICT, B_LIST, B_JUNK}

Publishes ==
    { Publish(e, hd, IF hd THEN d ELSE "") :
        e \in PublishEvents, hd \in BOOLEAN, d \in PublishData }

\* Service.log_exc: the traceback published on 'log.coding-error'.
log_exc == << Publish("log.coding-error", TRUE, "Traceback") >>

\* Mutant: fun(**kwargs) is called outside any try.
event_wrap_NoTry(event, has_data, data, out) ==
    Dispatched(<< >>, << Call(event, << >>, << >>, out) >>, out.kind = "raise")

\* _wrap(data): json.loads is outside the try, fun(**kwargs) inside it.
\* A handler called with something that is no mapping raises TypeError.
event_wrap(event, has_data, data, out) ==
    IF has_data /\ data # "" /\ (~Utf8Valid(data) \/ JsonType(data) \in
                                    {"ValueError", "RuntimeError"})
    THEN Dispatched(<< >>, << >>, TRUE)
    ELSE LET kw == IF has_data /\ data # "" THEN Value(JsonType(data), data)
                   ELSE EmptyDict
             res == IF kw.t # "dict"
                    THEN [kind |-> "raise", value |-> "argument after ** must be a mapping"]
                    ELSE out
             call == Call(event, << >>, CallKwargs(kw), res)
         IN  IF res.kind = "raise" THEN Dispatched(log_exc, << call >>, FALSE)
             ELSE Dispatched(<< >>, << call >>, FALSE)

\* The Publish branch of on_message_recieved: the callbacks of pub.event
\* (one per declared event); the service registers no pattern callback.
\* An exception leaving a callback leaves the dispatcher: asyncore closes
\* the channel.
on_publish(pub, out) ==
    IF pub.event \in Events
    THEN event_wrap(pub.event, pub.has_data, pub.data, out)
    ELSE Dispatched(<< >>, << >>, FALSE)

----------------------------------------------------------------------------
(* SpecDispatch: messages delivered to a running Service *)

\* Instances are created with identification None or "foo".
InstanceIdents == {NoneIdent, "foo"}

Total(f) == f[7] + f[8]

RepliesWithId(msgs, i) ==
    Cardinality({ k \in 1..Len(msgs) : msgs[k].type = "Reply" /\ msgs[k].id = i })

\* The handler raised while the message was dispatched.
HandlerRaised(cs) == \E k \in 1..Len(cs) : cs[k].result.kind = "raise"

InitDispatchVars ==
    /\ identification \in InstanceIdents
    /\ alive = TRUE
    /\ cur = NoMessage
    /\ sent = << >>
    /\ calls = << >>
    /\ received = [i \in RequestIds |-> 0]
    /\ replied = [i \in RequestIds |-> 0]
    /\ published = 0
    /\ raises = 0

\* Whether on_request / on_publish gets as far as running a declared handler
\* (only then does what the handler does matter).
RunsHandler(self_ident, req) ==
    /\ ~WrongIdentification(self_ident, req)
    /\ req.method \in Actions \ {"kill"}
    /\ ~decode_msg_data(req).raised

NoOutcome == [kind |-> "return", value |-> "None"]

OutcomesFor(runs) == IF runs THEN HandlerOutcomes ELSE {NoOutcome}

\* The effect of one dispatch on the state of the process.
Dispatch(msg, d) ==
    /\ cur' = msg
    /\ sent' = d.sent
    /\ calls' = d.calls
    /\ alive' = ~d.exit
    /\ replied' = [i \in RequestIds |-> replied[i] + RepliesWithId(d.sent, i)]

\* AsynClient.on_message_recieved with a Request: one call of on_request.
DeliverRequest ==
    /\ alive
    /\ Total(received) < MaxRequests
    /\ \E req \in Requests :
         \E out \in OutcomesFor(RunsHandler(identification, req)) :
           \E d \in {on_request(identification, req, out)} :
             /\ Dispatch(req, d)
             /\ received' = [received EXCEPT ![req.id] = @ + 1]
             /\ raises' = IF HandlerRaised(d.calls) THEN raises + 1 ELSE raises
    /\ UNCHANGED <<identification, published, requestVars, startupVars, extraVars>>

\* AsynClient.on_message_recieved with a Publish.
DeliverPublish ==
    /\ alive
    /\ published < MaxPublishes
    /\ \E pub \in Publishes :
         \E out \in OutcomesFor(pub.event \in Events) :
           \E d \in {on_publish(pub, out)} : Dispatch(pub, d)
    /\ published' = published + 1
    /\ UNCHANGED <<identification, received, raises, requestVars, startupVars, extraVars>>

----------------------------------------------------------------------------
(* SynClient.request: the blocking request loop *)

\* What one pass of the `while True` loop does with the message it read.
Continue == [kind |-> "continue", value |-> ""]
Raise(exc) == [kind |-> "raise", value |-> exc]
Return(data) == [kind |-> "return", value |-> data]

\* Mutant: two branches of the error mapping are swapped.
reply_result_Swapped(reply) ==
    IF reply.has_error
    THEN CASE reply.error_type = "Timeout" -> Raise("RequestTimeout")
           [] reply.error_type = "NoSuchService" -> Raise("NoSuchMethod")
           [] reply.error_type = "NoSuchMethod" -> Raise("NoSuchService")
           [] reply.error_type = "BadArguments" -> Raise("BadArguments")
           [] OTHER -> Raise("ReplyError")
    ELSE Return(IF reply.has_data THEN reply.data ELSE "None")

\* The end of the loop body: the Reply is the one waited for.
reply_result(reply) ==
    IF reply.has_error
    THEN CASE reply.error_type = "Timeout" -> Raise("RequestTimeout")
           [] reply.error_type = "NoSuchService" -> Raise("NoSuchService")
           [] reply.error_type = "NoSuchMethod" -> Raise("NoSuchMethod")
           [] reply.error_type = "BadArguments" -> Raise("BadArguments")
           [] OTHER -> Raise("ReplyError")
    ELSE Return(IF reply.has_data THEN reply.data ELSE "None")

\* Mutant: the id of the Reply is not compared with req_id.
request_step_AnyReply(id, message) ==
    IF message.type # "Reply" THEN Continue ELSE reply_result(message)

\* One pass of the loop of SynClient.request waiting for the Reply to `id`.
request_step(id, message) ==
    IF message.type # "Reply" THEN Continue
    ELSE IF message.id # id THEN Continue
    ELSE reply_result(message)

----------------------------------------------------------------------------
(* SpecRequest: a blocking client and what its socket delivers *)

\* random.randrange(0, 2**32): the seeds tried.
Seeds == {7}

\* Data a Reply carries.
ReplyData == {"\"bar\""}

\* Envelopes the broker may put on the socket of the client: Replies (to this
\* call, stale or not, with or without error) and Publishes.
Replies ==
    { Reply(i, hd, IF hd THEN d ELSE "", FALSE, "", FALSE, "") :
        i \in RequestIds, hd \in BOOLEAN, d \in ReplyData }
    \cup { Reply(i, FALSE, "", TRUE, k, FALSE, "") : i \in RequestIds, k \in ErrorKinds }

Envelopes == Replies \cup { Publish("tick", FALSE, "") }

InitRequestVars ==
    /\ rpc = "idle"
    /\ req_id = 0
    /\ inbox = << >>
    /\ arrived = 0
    /\ outcome = Continue
    /\ last_reply = NoMessage
    /\ ncalls = 0

\* AbstractClient.request called by SynClient.request: allocate the id, send.
ClientRequest ==
    /\ rpc # "waiting"
    /\ ncalls < MaxCalls
    /\ req_id' = seq_id
    /\ seq_id' = seq_id + 1
    /\ rpc' = "waiting"
    /\ ncalls' = ncalls + 1
    /\ UNCHANGED <<inbox, arrived, outcome, last_reply, dispatchVars, extraVars, startupVars>>

\* The broker writes an envelope to the socket of the client.
BrokerSend ==
    /\ arrived < MaxEnvelopes
    /\ \E m \in Envelopes : inbox' = Append(inbox, m)
    /\ arrived' = arrived + 1
    /\ UNCHANGED <<seq_id, rpc, req_id, outcome, last_reply, ncalls, dispatchVars, extraVars,
                   startupVars>>

\* One pass of the loop: read a whole envelope, drop it or end the call.
ClientRecv ==
    /\ rpc = "waiting"
    /\ inbox # << >>
    /\ \E r \in {request_step(req_id, Head(inbox))} :
         IF r.kind = "continue"
         THEN UNCHANGED <<rpc, outcome, last_reply>>
         ELSE /\ rpc' = IF r.kind = "raise" THEN "raised" ELSE "returned"
              /\ outcome' = r
              /\ last_reply' = Head(inbox)
    /\ inbox' = Tail(inbox)
    /\ UNCHANGED <<seq_id, req_id, arrived, ncalls, dispatchVars, extraVars, startupVars>>

----------------------------------------------------------------------------
(* Service.__init__: _setup_synchronous, _setup_dependencies, _setup_asynchronous *)

\* A service is (name, identification); "" is no identification.
ServiceA == << "servicea", "" >>
Test42 == << "test", "42" >>
Test12 == << "test", "12" >>

\* The services that may register with the broker while this one starts.
OtherServices == {ServiceA, Test42, Test12}

\* The dependencies a service class may declare with @Service.require.
Dependencies == {ServiceA, Test42}

\* This service: (service_name, identification).
Self == << "serviceb", "" >>

NewService == "log.cellaserv.new-service"

Subscribe(event) == [type |-> "Subscribe", event |-> event]

Register(name, ident) == [type |-> "Register", name |-> name, identification |-> ident]

\* The Request of syn_client.request('list-services', 'cellaserv').
ListServices(id) == Request(id, FALSE, "", "list-services", FALSE, "")

\* Mutant: the list is requested before the subscription is made.
DependencyProbe_ListFirst(id) == << ListServices(id), Subscribe(NewService) >>

\* What _setup_dependencies writes to the socket before it reads anything.
DependencyProbe(id) == << Subscribe(NewService), ListServices(id) >>

\* Mutant: a registered service is matched on its name alone.
remove_registered_ByName(unregistered, services) ==
    { d \in unregistered : \A s \in services : s[1] # d[1] }

\* services_unregistered.remove(service_ident) for each service, KeyError passed.
remove_registered(unregistered, services) == unregistered \ services

\* The next envelope of the socket, and the socket after it was read.
read_message(sock) == [msg |-> Head(sock), rest |-> Tail(sock)]

\* Mutant: any new-service Publish, whatever service it names, ends the wait.
wait_step_AnyNewService(unregistered, msg) ==
    IF msg.type = "Publish"
    THEN IF msg.event = NewService THEN {} ELSE unregistered
    ELSE unregistered

\* Mutant: an envelope that is no Publish ends the wait.
wait_step_NonPublishEnds(unregistered, msg) ==
    IF msg.type = "Publish"
    THEN IF msg.event = NewService
         THEN remove_registered(unregistered, {msg.data})
         ELSE unregistered
    ELSE {}

\* The body of the wait loop for the message read: the set after it.
wait_step(unregistered, msg) ==
    IF msg.type = "Publish"
    THEN IF msg.event = NewService
         THEN remove_registered(unregistered, {msg.data})
         ELSE unregistered
    ELSE unregistered

\* The services a message of the wait loop names.
Named(msg) ==
    IF msg.type = "Publish" /\ msg.event = NewService THEN {msg.data} ELSE {}

\* cls._events of the service class: the events it declares, in the order
\* the class dictionary lists them.
ServiceEvents == << "tick", "tock" >>

\* cls._threads of the service class: its @Service.thread methods.
ServiceThreads == << "loop", "blink" >>

InitStartupVars ==
    /\ spc = "start"
    /\ deps \in SUBSET Dependencies
    /\ services_unregistered = {}
    /\ cb_runs = [d \in Dependencies |-> 0]
    /\ to_broker = << >>
    /\ sent_log = << >>
    /\ threads = << >>
    /\ registered \in SUBSET {ServiceA}
    /\ subscriptions = {}
    /\ observed = {}
    /\ discarded = {}
    /\ strays = 0

Send(msgs) ==
    /\ to_broker' = to_broker \o msgs
    /\ sent_log' = sent_log \o msgs

\* _setup_dependencies up to its first read: return early without
\* dependency, else subscribe and send the list-services request.
SetupDependencies ==
    /\ spc = "start"
    /\ IF deps = {}
       THEN /\ spc' = "async"
            /\ UNCHANGED <<services_unregistered, to_broker, sent_log, seq_id, req_id>>
       ELSE /\ services_unregistered' = deps
            /\ Send(DependencyProbe(seq_id))
            /\ req_id' = seq_id
            /\ seq_id' = seq_id + 1
            /\ spc' = "listing"
    /\ UNCHANGED <<deps, cb_runs, threads, registered, subscriptions, observed, strays,
                   discarded, rpc, inbox, arrived, outcome, last_reply, ncalls, dispatchVars, extraVars>>

\* One pass of the loop of syn_client.request('list-services'); when it
\* returns, the services listed are removed from services_unregistered.
ListRecv ==
    /\ spc = "listing"
    /\ inbox # << >>
    /\ \E r \in {request_step(req_id, Head(inbox))} :
         IF r.kind = "continue"
         THEN /\ discarded' = discarded \cup {Head(inbox)}
              /\ UNCHANGED <<spc, services_unregistered, observed>>
         ELSE IF r.kind = "raise"
         THEN /\ spc' = "failed"
              /\ UNCHANGED <<services_unregistered, observed, discarded>>
         ELSE /\ services_unregistered' =
                    remove_registered(services_unregistered, r.value)
              /\ observed' = observed \cup r.value
              /\ spc' = IF services_unregistered' = {} THEN "satisfied" ELSE "waiting"
              /\ UNCHANGED discarded
    /\ inbox' = Tail(inbox)
    /\ UNCHANGED <<deps, cb_runs, to_broker, sent_log, threads, registered,
                   subscriptions, strays, seq_id, rpc, req_id, arrived, outcome,
                   last_reply, ncalls, dispatchVars, extraVars>>

\* One pass of `while services_unregistered`.
WaitRecv ==
    /\ spc = "waiting"
    /\ inbox # << >>
    /\ \E r \in {read_message(inbox)} :
         /\ services_unregistered' = wait_step(services_unregistered, r.msg)
         /\ observed' = observed \cup Named(r.msg)
         /\ inbox' = r.rest
    /\ spc' = IF services_unregistered' = {} THEN "satisfied" ELSE "waiting"
    /\ UNCHANGED <<deps, cb_runs, to_broker, sent_log, threads, registered,
                   subscriptions, strays, discarded, seq_id, rpc, req_id, arrived, outcome,
                   last_reply, ncalls, dispatchVars, extraVars>>

\* All dependencies registered: every callback of every dependency is called.
RunCallbacks ==
    /\ spc = "satisfied"
    /\ cb_runs' = [d \in Dependencies |-> IF d \in deps THEN cb_runs[d] + 1
                                          ELSE cb_runs[d]]
    /\ spc' = "async"
    /\ UNCHANGED <<deps, services_unregistered, to_broker, sent_log, threads,
                   registered, subscriptions, observed, discarded, strays,
                   requestVars, dispatchVars, extraVars>>

\* Mutant: the service registers before it subscribes to its events.
AsynchronousSetup_RegisterFirst ==
    << Register(Self[1], Self[2]) >>
      \o [k \in 1..Len(ServiceEvents) |-> Subscribe(ServiceEvents[k])]

\* The envelopes _setup_asynchronous writes: a Subscribe per declared event,
\* then the Register.
AsynchronousSetup ==
    [k \in 1..Len(ServiceEvents) |-> Subscribe(ServiceEvents[k])]
      \o << Register(Self[1], Self[2]) >>

\* _setup_asynchronous up to the Register: subscribe to the events, register.
SetupAsynchronous ==
    /\ spc = "async"
    /\ Send(AsynchronousSetup)
    /\ spc' = IF ServiceThreads = << >> THEN "ready" ELSE "threading"
    /\ UNCHANGED <<deps, services_unregistered, cb_runs, threads, registered,
                   subscriptions, observed, discarded, strays, requestVars,
                   dispatchVars, extraVars>>

\* One pass of `for method in self._threads`: the next worker is started;
\* after the last one _setup and the constructor return.
StartThread ==
    /\ spc = "threading"
    /\ threads' = Append(threads, ServiceThreads[Len(threads) + 1])
    /\ spc' = IF Len(threads') = Len(ServiceThreads) THEN "ready" ELSE "threading"
    /\ UNCHANGED <<deps, services_unregistered, cb_runs, to_broker, sent_log,
                   registered, subscriptions, observed, discarded, strays,
                   requestVars, dispatchVars, extraVars>>

----------------------------------------------------------------------------
(* The broker, as the starting service sees it *)

\* The Publish the broker sends to the subscribers of new-service.
Announce(service) ==
    IF NewService \in subscriptions
    THEN << Publish(NewService, TRUE, service) >>
    ELSE << >>

\* The broker processes, in order, the next envelope the service wrote.
BrokerProcess ==
    /\ to_broker # << >>
    /\ to_broker' = Tail(to_broker)
    /\ \E m \in {Head(to_broker)} :
         CASE m.type = "Subscribe" ->
                /\ subscriptions' = subscriptions \cup {m.event}
                /\ UNCHANGED <<registered, inbox>>
           [] m.type = "Request" ->
                /\ inbox' = Append(inbox, Reply(m.id, TRUE, registered,
                                                FALSE, "", FALSE, ""))
                /\ UNCHANGED <<registered, subscriptions>>
           [] m.type = "Register" ->
                /\ registered' = registered \cup {<< m.name, m.identification >>}
                /\ inbox' = inbox \o Announce(<< m.name, m.identification >>)
                /\ UNCHANGED subscriptions
    /\ UNCHANGED <<spc, deps, services_unregistered, cb_runs, sent_log, threads,
                   observed, discarded, strays, seq_id, rpc, req_id, arrived, outcome,
                   last_reply, ncalls, dispatchVars, extraVars>>

\* Another service registers; the broker announces it to the subscribers.
OtherRegisters ==
    /\ \E s \in OtherServices \ registered :
         /\ registered' = registered \cup {s}
         /\ inbox' = inbox \o Announce(s)
    /\ UNCHANGED <<spc, deps, services_unregistered, cb_runs, to_broker, sent_log,
                   threads, subscriptions, observed, discarded, strays, seq_id, rpc, req_id,
                   arrived, outcome, last_reply, ncalls, dispatchVars, extraVars>>

\* Envelopes unrelated to the startup: another Publish, a Reply to no request
\* of this client.
StrayEnvelopes ==
    { Publish("log.cellaserv.lost-service", TRUE, Test12),
      Reply(0, FALSE, "", FALSE, "", FALSE, "") }

BrokerStray ==
    /\ strays < MaxStray
    /\ strays' = strays + 1
    /\ \E m \in StrayEnvelopes : inbox' = Append(inbox, m)
    /\ UNCHANGED <<spc, deps, services_unregistered, cb_runs, to_broker, sent_log,
                   threads, registered, subscriptions, observed, discarded, seq_id, rpc,
                   req_id, arrived, outcome, last_reply, ncalls, dispatchVars, extraVars>>

----------------------------------------------------------------------------
(* SpecAlloc: AbstractClient.request called from several threads *)

\* The threads of the process that call request() on the same client.
Callers == {1, 2}

InitAllocVars ==
    /\ tpc = [t \in Callers |-> "idle"]
    /\ tid = [t \in Callers |-> 0]
    /\ tload = [t \in Callers |-> 0]
    /\ allocated = << >>
    /\ returned = 0
    /\ overlap = FALSE

\* Mutant: the counter is written back as it was read.
increment_Same(v) == v

\* `self._request_seq_id += 1`: the value stored for the value read.
increment(v) == v + 1

\* request.id = self._request_seq_id: the call reads the counter for its id.
AssignId(t) ==
    /\ tpc[t] = "idle"
    /\ Len(allocated) < MaxAllocs
    /\ tid' = [tid EXCEPT ![t] = seq_id]
    /\ allocated' = Append(allocated, seq_id)
    /\ overlap' = (overlap \/ \E u \in Callers \ {t} : tpc[u] # "idle")
    /\ tpc' = [tpc EXCEPT ![t] = "assigned"]
    /\ UNCHANGED <<seq_id, tload, returned, requestRest, dispatchVars, startupVars,
                   loopVars, frameVars, fanVars, lateVars>>

\* `+= 1`, first half: the thread reads the counter again.
LoadSeq(t) ==
    /\ tpc[t] = "assigned"
    /\ tload' = [tload EXCEPT ![t] = seq_id]
    /\ tpc' = [tpc EXCEPT ![t] = "loaded"]
    /\ UNCHANGED <<seq_id, tid, allocated, returned, overlap, requestRest,
                   dispatchVars, startupVars, loopVars, frameVars, fanVars, lateVars>>

\* `+= 1`, second half: the thread stores the sum; then the Request is sent
\* and request() returns request.id.
StoreSeq(t) ==
    /\ tpc[t] = "loaded"
    /\ seq_id' = increment(tload[t])
    /\ returned' = returned + 1
    /\ tpc' = [tpc EXCEPT ![t] = "idle"]
    /\ UNCHANGED <<tid, tload, allocated, overlap, requestRest, dispatchVars,
                   startupVars, loopVars, frameVars, fanVars, lateVars>>

----------------------------------------------------------------------------
(* SpecLoop: `services = [Bar(i) for i in ...]; Service.loop()` *)

\* The instances of one Service class, in the order the process builds them.
Instances == 1..NInstances

InitLoopVars ==
    /\ constructing = 1
    /\ step = "new"
    /\ config_cbs = << >>
    /\ cb_idx = 1
    /\ fetches = [i \in Instances |-> 0]
    /\ socket_map = {}
    /\ syn_reads = [i \in Instances |-> 0]
    /\ asyn_reads = [i \in Instances |-> 0]
    /\ queue = [i \in Instances |-> 0]
    /\ delivered = 0
    /\ lost = 0
    /\ loop = "off"
    /\ running = 0

\* A blocking SynClient.request on the socket of instance j: it reads up to
\* the Reply and drops every envelope before it.
BlockingRequest(j) ==
    /\ syn_reads' = [syn_reads EXCEPT ![j] = @ + 1]
    /\ lost' = lost + queue[j]
    /\ queue' = [queue EXCEPT ![j] = 0]

\* _setup_synchronous of instance i up to the callbacks: a callback per
\* ConfigVariable is appended to the dictionary of the class; with a
\* non-empty dictionary the instance subscribes and requests list-services.
InstSetupSynchronous(i) ==
    /\ constructing = i
    /\ step = "new"
    /\ config_cbs' = IF has_config THEN Append(config_cbs, i) ELSE config_cbs
    /\ IF has_require \/ config_cbs' # << >>
       THEN /\ BlockingRequest(i)
            /\ step' = "callbacks"
       ELSE /\ step' = "async"
            /\ UNCHANGED <<syn_reads, lost, queue>>
    /\ cb_idx' = 1
    /\ UNCHANGED <<has_require, has_config, constructing, socket_map, asyn_reads,
                   delivered, loop, running, fetches, coreVars, lateVars, allocVars, frameVars, fanVars>>

\* `for callback in callbacks: callback()`: on_config_registered requests
\* the value with the syn_client it captured.
InstConfigCallback(i) ==
    /\ constructing = i
    /\ step = "callbacks"
    /\ IF cb_idx <= Len(config_cbs)
       THEN /\ BlockingRequest(config_cbs[cb_idx])
            /\ fetches' = [fetches EXCEPT ![i] = @ + 1]
            /\ cb_idx' = cb_idx + 1
            /\ UNCHANGED step
       ELSE /\ step' = "async"
            /\ UNCHANGED <<cb_idx, fetches, syn_reads, lost, queue>>
    /\ UNCHANGED <<has_require, has_config, constructing, config_cbs, socket_map,
                   asyn_reads, delivered, loop, running, coreVars, lateVars,
                   allocVars, frameVars, fanVars>>

\* _setup_asynchronous of instance i: async_chat.__init__ adds the socket to
\* the map of asyncore; the constructor returns, the next one may start.
InstSetupAsynchronous(i) ==
    /\ constructing = i
    /\ step = "async"
    /\ socket_map' = socket_map \cup {i}
    /\ constructing' = i + 1
    /\ step' = "new"
    /\ UNCHANGED <<has_require, has_config, config_cbs, cb_idx, syn_reads,
                   asyn_reads, queue, delivered, lost, loop, running, fetches, coreVars, lateVars,
                   allocVars, frameVars, fanVars>>

\* Mutant: the loop is started, in another thread, once one service exists.
LoopMayStart_AfterFirst == constructing > 1

\* The process calls Service.loop() after it built its services.
LoopMayStart == constructing > NInstances

\* Service.loop(): asyncore.loop() takes the thread.
ServiceLoop ==
    /\ loop = "off"
    /\ LoopMayStart
    /\ loop' = "poll"
    /\ UNCHANGED <<has_require, has_config, constructing, step, config_cbs, cb_idx,
                   socket_map, syn_reads, asyn_reads, queue, delivered, lost,
                   running, fetches, coreVars, lateVars, allocVars, frameVars, fanVars>>

\* The broker sends an envelope to a registered service of the process.
BrokerDeliver(i) ==
    /\ i \in socket_map
    /\ delivered < MaxDelivered
    /\ delivered' = delivered + 1
    /\ queue' = [queue EXCEPT ![i] = @ + 1]
    /\ UNCHANGED <<has_require, has_config, constructing, step, config_cbs, cb_idx,
                   socket_map, syn_reads, asyn_reads, lost, loop, running, fetches, coreVars, lateVars,
                   allocVars, frameVars, fanVars>>

\* Mutant: the loop reads a socket while a handler is executing.
LoopPolls_Always == loop # "off"

\* asyncore.loop() is in poll(): no callback of a channel is executing.
LoopPolls == loop = "poll"

\* The loop finds the socket of instance i readable: handle_read,
\* found_terminator, on_message_recieved, and the handler is entered.
HandleRead(i) ==
    /\ LoopPolls
    /\ i \in socket_map
    /\ queue[i] > 0
    /\ queue' = [queue EXCEPT ![i] = @ - 1]
    /\ asyn_reads' = [asyn_reads EXCEPT ![i] = @ + 1]
    /\ running' = running + 1
    /\ loop' = "handler"
    /\ UNCHANGED <<has_require, has_config, constructing, step, config_cbs, cb_idx,
                   socket_map, syn_reads, delivered, lost, fetches, coreVars, lateVars, allocVars, frameVars, fanVars>>

\* The handler returns; the calls unwind to poll().
HandlerReturn ==
    /\ loop = "handler"
    /\ running > 0
    /\ running' = running - 1
    /\ loop' = "poll"
    /\ UNCHANGED <<has_require, has_config, constructing, step, config_cbs, cb_idx,
                   socket_map, syn_reads, asyn_reads, queue, delivered, lost,
                   fetches, coreVars, lateVars, allocVars, frameVars, fanVars>>

----------------------------------------------------------------------------
(* Framing: 4 bytes of length, big-endian, then the body *)

\* The values of the body bytes tried.
BodyBytes == {0, 1}

\* Serialized Messages: a Message carries at least its type, so no body is
\* empty.
Bodies == UNION { [1..n -> BodyBytes] : n \in 1..MaxBody }

\* struct.pack("!I", n)
pack(n) == << (n \div 16777216) % 256, (n \div 65536) % 256, (n \div 256) % 256, n % 256 >>

\* struct.unpack("!I", b)[0], for b of 4 bytes
unpack(b) == ((b[1] * 256 + b[2]) * 256 + b[3]) * 256 + b[4]

\* The bytes of the frames, as _send_message writes them.
RECURSIVE Encode(_)
Encode(frames) ==
    IF frames = << >> THEN << >>
    ELSE pack(Len(Head(frames))) \o Head(frames) \o Encode(Tail(frames))

Min(a, b) == IF a < b THEN a ELSE b

Take(seq, n) == SubSeq(seq, 1, n)

Drop(seq, n) == SubSeq(seq, n + 1, Len(seq))

InitFrameVars ==
    /\ wire = Encode(frames_sent)
    /\ nreceived = 0
    /\ eof = FALSE
    /\ chan = [terminator |-> 4, read_header |-> TRUE, ibuffer |-> << >>]
    /\ messages = << >>
    /\ sy_pc = "header"
    /\ msg_len = 0
    /\ msg_buf = << >>
    /\ spin = 0

\* The frames a peer may write.
FrameStreams == UNION { [1..n -> Bodies] : n \in 1..MaxFrames }

\* The streams of a peer that writes a frame of length 0 among its frames.
ZeroFrameStreams ==
    { fs \in UNION { [1..n -> Bodies \cup {<< >>}] : n \in 1..MaxFrames } :
        \E k \in 1..Len(fs) : fs[k] = << >> }

----------------------------------------------------------------------------
(* SpecAsynFrame: AsynClient on asynchat.async_chat *)

\* A reader and the messages it handed to on_message_recieved.
Reader(c, out) == [chan |-> c, msgs |-> out]

collect_incoming_data(r, data) ==
    Reader([r.chan EXCEPT !.ibuffer = @ \o data], r.msgs)

\* Mutant: the header bytes are left in the buffer.
found_terminator_KeepsHeader(r) ==
    IF r.chan.read_header
    THEN Reader([r.chan EXCEPT !.read_header = FALSE,
                               !.terminator = unpack(r.chan.ibuffer)], r.msgs)
    ELSE Reader([terminator |-> 4, read_header |-> TRUE, ibuffer |-> << >>],
                Append(r.msgs, r.chan.ibuffer))

\* found_terminator: a header sets the terminator to the length it holds; a
\* body is handed to on_message_recieved and the reader expects a header.
found_terminator(r) ==
    IF r.chan.read_header
    THEN Reader([terminator |-> unpack(r.chan.ibuffer), read_header |-> FALSE,
                 ibuffer |-> << >>], r.msgs)
    ELSE Reader([terminator |-> 4, read_header |-> TRUE, ibuffer |-> << >>],
                Append(r.msgs, r.chan.ibuffer))

\* async_chat.handle_read with a numeric terminator, for the bytes buf not
\* yet consumed: fewer than the terminator are collected and counted off;
\* otherwise the terminator's worth is collected and found_terminator called.
\* A terminator of 0 collects everything and never calls found_terminator.
RECURSIVE handle_read(_, _)
handle_read(r, buf) ==
    IF buf = << >> THEN r
    ELSE IF r.chan.terminator = 0
    THEN collect_incoming_data(r, buf)
    ELSE IF Len(buf) < r.chan.terminator
    THEN Reader([collect_incoming_data(r, buf).chan
                    EXCEPT !.terminator = @ - Len(buf)], r.msgs)
    ELSE handle_read(
            found_terminator(
                Reader([collect_incoming_data(r, Take(buf, r.chan.terminator)).chan
                           EXCEPT !.terminator = 0], r.msgs)),
            Drop(buf, r.chan.terminator))

\* The socket is readable: recv returns some of the bytes, handle_read runs.
AsynRecv ==
    /\ wire # << >>
    /\ \E n \in 1..Len(wire) :
         /\ \E r \in {handle_read(Reader(chan, messages), Take(wire, n))} :
              /\ chan' = r.chan
              /\ messages' = r.msgs
         /\ wire' = Drop(wire, n)
         /\ nreceived' = nreceived + n
    /\ UNCHANGED <<frames_sent, eof, sy_pc, msg_len, msg_buf, spin, coreVars, lateVars, allocVars,
                   loopVars, fanVars>>

----------------------------------------------------------------------------
(* SpecSynFrame: the read loop of SynClient.request *)

\* The peer closes the connection; bytes it had not flushed are lost.
PeerCloses ==
    /\ ~eof
    /\ eof' = TRUE
    /\ \E n \in 0..Len(wire) : wire' = Take(wire, n)
    /\ UNCHANGED <<frames_sent, nreceived, chan, messages, sy_pc, msg_len, msg_buf, spin,
                   coreVars, lateVars, allocVars, loopVars, fanVars>>

\* The results recv(size) may give: any non-empty prefix of at most size
\* bytes; b"" when the stream has ended; nothing while it is merely empty.
recv(size) ==
    IF wire = << >>
    THEN IF eof THEN { << >> } ELSE {}
    ELSE { Take(wire, n) : n \in 1..Min(size, Len(wire)) }

\* The message is complete (msg_len is 0): it is parsed and, not being the
\* awaited Reply, dropped; the loop reads the next header.
\* hdr = self._socket.recv(4); struct.unpack("!I", hdr) raises struct.error
\* when hdr is not 4 bytes long.
SynRecvHeader ==
    /\ sy_pc = "header"
    /\ \E hdr \in recv(4) :
         /\ wire' = Drop(wire, Len(hdr))
         /\ nreceived' = nreceived + Len(hdr)
         /\ IF Len(hdr) # 4
            THEN /\ sy_pc' = "raised"
                 /\ UNCHANGED <<msg_len, msg_buf, messages>>
            ELSE IF unpack(hdr) = 0
            THEN /\ messages' = Append(messages, << >>)
                 /\ msg_buf' = << >>
                 /\ msg_len' = 0
                 /\ UNCHANGED sy_pc
            ELSE /\ msg_len' = unpack(hdr)
                 /\ msg_buf' = << >>
                 /\ sy_pc' = "body"
                 /\ UNCHANGED messages
    /\ UNCHANGED <<frames_sent, eof, chan, spin, coreVars, lateVars, allocVars, loopVars, fanVars>>

\* One pass of `while msg_len != 0`: buf = recv(msg_len); after the last
\* pass the message is parsed and the loop reads the next header.
SynRecvBody ==
    /\ sy_pc = "body"
    /\ \E buf \in recv(msg_len) :
         /\ wire' = Drop(wire, Len(buf))
         /\ nreceived' = nreceived + Len(buf)
         /\ msg_len' = msg_len - Len(buf)
         /\ spin' = IF buf = << >> THEN 1 - spin ELSE spin
         /\ IF msg_len' = 0
            THEN /\ messages' = Append(messages, msg_buf \o buf)
                 /\ msg_buf' = << >>
                 /\ sy_pc' = "header"
            ELSE /\ msg_buf' = msg_buf \o buf
                 /\ UNCHANGED <<messages, sy_pc>>
    /\ UNCHANGED <<frames_sent, eof, chan, coreVars, lateVars, allocVars, loopVars, fanVars>>

----------------------------------------------------------------------------
(* SpecFanout: add_subscribe_cb, add_subscribe_pattern_cb, a Publish *)

\* Names are sequences of characters, as fnmatch reads them.
N_LM == << "l", ".", "m" >>
N_LS == << "l", ".", "s" >>
N_X == << "x" >>
P_LSTAR == << "l", ".", "*" >>
P_ANY1 == << "?" >>

\* The names callbacks are registered for with add_subscribe_cb.
ExactNames == {N_LM, N_X, P_LSTAR}

\* The patterns callbacks are registered for with add_subscribe_pattern_cb,
\* in the order the dictionary lists them.
Patterns == << P_LSTAR, P_ANY1 >>

\* The events of the Publishes received.
FanEvents == {N_LM, N_LS, N_X}

\* The functions registered as callbacks.
Callbacks == {"f", "g"}

\* fnmatch.fnmatch(name, pat) with the wildcards * and ?.
RECURSIVE fnmatch(_, _)
fnmatch(name, pat) ==
    IF pat = << >> THEN name = << >>
    ELSE IF Head(pat) = "*"
    THEN fnmatch(name, Tail(pat)) \/ (name # << >> /\ fnmatch(Tail(name), pat))
    ELSE IF Head(pat) = "?"
    THEN name # << >> /\ fnmatch(Tail(name), Tail(pat))
    ELSE name # << >> /\ Head(name) = Head(pat) /\ fnmatch(Tail(name), Tail(pat))

\* Mutant: a pattern is compared with the event as a plain name.
Matches_Exact(name, pat) == name = pat

\* `if fnmatch.fnmatch(pub.event, pattern)`
Matches(name, pat) == fnmatch(name, pat)

InitFanVars ==
    /\ events_cb = [e \in ExactNames |-> << >>]
    /\ events_pattern_cb = [k \in 1..Len(Patterns) |-> << >>]
    /\ fan_pub = NoMessage
    /\ fan_calls = << >>
    /\ fan_sent = << >>
    /\ fan_closed = FALSE

RECURSIVE SumLen(_, _)
SumLen(f, keys) ==
    IF keys = {} THEN 0
    ELSE LET k == CHOOSE x \in keys : TRUE IN Len(f[k]) + SumLen(f, keys \ {k})

\* The number of registrations made so far.
Registrations ==
    SumLen(events_cb, ExactNames) + SumLen(events_pattern_cb, 1..Len(Patterns))

\* add_subscribe_cb(event, event_cb); a Service passes _event_wrap(callback).
AddSubscribeCb(event, cb) ==
    /\ ~fan_closed
    /\ Registrations < MaxSubscribes
    /\ events_cb' = [events_cb EXCEPT ![event] = Append(@, cb)]
    /\ fan_sent' = << Subscribe(event) >>
    /\ fan_pub' = NoMessage
    /\ fan_calls' = << >>
    /\ UNCHANGED <<wrapping, raising, events_pattern_cb, fan_closed, coreVars, lateVars,
                   allocVars, loopVars, frameVars>>

\* add_subscribe_pattern_cb(pattern, event_cb); a Service never calls it.
AddSubscribePatternCb(k, cb) ==
    /\ ~fan_closed
    /\ ~wrapping
    /\ Registrations < MaxSubscribes
    /\ events_pattern_cb' = [events_pattern_cb EXCEPT ![k] = Append(@, cb)]
    /\ fan_sent' = << Subscribe(Patterns[k]) >>
    /\ fan_pub' = NoMessage
    /\ fan_calls' = << >>
    /\ UNCHANGED <<wrapping, raising, events_cb, fan_closed, coreVars, lateVars, allocVars,
                   loopVars, frameVars>>

\* What the function of a callback does when it is called.
Behaviour(cb) ==
    IF cb \in raising THEN [kind |-> "raise", value |-> "boom"]
    ELSE [kind |-> "return", value |-> "None"]

\* cb(pub.data) / cb() for a basic subscription, cb(pub.data, event=...) /
\* cb(event=...) for a pattern: the callback as registered is called.
Invoke(cb, pub, by_pattern) ==
    IF wrapping
    THEN event_wrap(cb, pub.has_data, pub.data, Behaviour(cb))
    ELSE Dispatched(<< >>,
                    << Call(cb, IF pub.has_data THEN << pub.data >> ELSE << >>,
                            IF by_pattern THEN << pub.event >> ELSE << >>,
                            Behaviour(cb)) >>,
                    Behaviour(cb).kind = "raise")

\* The callbacks on_message_recieved goes through for a Publish: those of
\* the event, then those of each matching pattern.
RECURSIVE PatternCallbacks(_, _)
PatternCallbacks(event, k) ==
    IF k > Len(Patterns) THEN << >>
    ELSE (IF Matches(event, Patterns[k])
          THEN [j \in 1..Len(events_pattern_cb[k]) |->
                   [cb |-> events_pattern_cb[k][j], by_pattern |-> TRUE]]
          ELSE << >>)
         \o PatternCallbacks(event, k + 1)

\* self._events_cb is a defaultdict: an event nobody registered for has no callback.
BasicCallbacks(event) ==
    IF event \in ExactNames
    THEN [j \in 1..Len(events_cb[event]) |->
             [cb |-> events_cb[event][j], by_pattern |-> FALSE]]
    ELSE << >>

\* The two loops: an exception that leaves a callback leaves them.
RECURSIVE fan_out(_, _, _)
fan_out(todo, pub, acc) ==
    IF todo = << >> \/ acc.exit THEN acc
    ELSE LET d == Invoke(Head(todo).cb, pub, Head(todo).by_pattern)
         IN  fan_out(Tail(todo), pub,
                     Dispatched(acc.sent \o d.sent, acc.calls \o d.calls, d.exit))

\* Data of the Publishes received.
FanData == {B_DICT, B_JUNK}

FanPublishes ==
    { Publish(e, hd, IF hd THEN d ELSE "") :
        e \in FanEvents, hd \in BOOLEAN, d \in FanData }

\* on_message_recieved for a Publish.
FanPublish(pub) ==
    /\ ~fan_closed
    /\ \E d \in {fan_out(BasicCallbacks(pub.event) \o PatternCallbacks(pub.event, 1),
                         pub, Dispatched(<< >>, << >>, FALSE))} :
         /\ fan_calls' = d.calls
         /\ fan_sent' = d.sent
         /\ fan_closed' = d.exit
    /\ fan_pub' = pub
    /\ UNCHANGED <<wrapping, raising, events_cb, events_pattern_cb, coreVars, lateVars,
                   allocVars, loopVars, frameVars>>

----------------------------------------------------------------------------
(* SpecReplyData: the value a handler returns, up to the blocking caller *)

\* Values a handler returns that Python takes for false: 0, False, '', [], {}.
FalsyReturns == {"0", "False", "''", "[]", "{}"}

\* What the handler of 'time' may do in a round trip.
ReplyOutcomes ==
    HandlerOutcomes \cup { [kind |-> "return", value |-> v] : v \in FalsyReturns }

\* The Requests of a blocking caller for the action 'time'.
TimeRequests == { r \in Requests : r.method = "time" }

InitReplyVars ==
    /\ rd_pc = "idle"
    /\ rd_req = NoMessage
    /\ rd_out = NoOutcome
    /\ rd_wire = << >>
    /\ rd_result = Continue
    /\ rd_trips = 0

\* The service (identification None) dispatches the Request of the caller.
ServiceHandles ==
    /\ rd_pc # "sent"
    /\ rd_trips < MaxRoundTrips
    /\ \E req \in TimeRequests :
         \E out \in (IF RunsHandler(NoneIdent, req) THEN ReplyOutcomes ELSE {NoOutcome}) :
           /\ rd_req' = req
           /\ rd_out' = out
           /\ rd_wire' = on_request(NoneIdent, req, out).sent
    /\ rd_pc' = IF rd_wire' = << >> THEN "idle" ELSE "sent"
    /\ rd_result' = Continue
    /\ rd_trips' = rd_trips + 1
    /\ UNCHANGED notReply

\* The caller, blocked in SynClient.request for the id of its Request, reads
\* the envelope the service sent.
CallerReads ==
    /\ rd_pc = "sent"
    /\ rd_result' = request_step(rd_req.id, Head(rd_wire))
    /\ rd_pc' = "read"
    /\ UNCHANGED <<rd_req, rd_out, rd_wire, rd_trips, notReply>>

----------------------------------------------------------------------------
(* SpecCorrelate: non-blocking requests of a Service and their Replies *)

\* The ids a client seeded with one of Seeds can allocate in a behaviour.
AsynIds == { s + k : s \in Seeds, k \in 0..MaxAsynRequests }

InitCorrVars ==
    /\ co_reply_cb = {}
    /\ co_registered = {}
    /\ co_invoked = [i \in AsynIds |-> 0]
    /\ co_sent = << >>
    /\ co_socket = << >>
    /\ co_answered = {}
    /\ co_dispatched = {}

\* AbstractClient.request on a Service: the id is taken from the counter, the
\* Request is pushed and the id returned; nothing is read. The caller may
\* then store a completion callback for the id in self._reply_cb, the one
\* mapping the class keeps for it.
AsynRequest(with_cb) ==
    /\ Len(co_sent) < MaxAsynRequests
    /\ co_sent' = Append(co_sent, seq_id)
    /\ seq_id' = increment(seq_id)
    /\ co_reply_cb' = IF with_cb THEN co_reply_cb \cup {seq_id} ELSE co_reply_cb
    /\ co_registered' = IF with_cb THEN co_registered \cup {seq_id} ELSE co_registered
    /\ UNCHANGED <<co_invoked, co_socket, co_answered, co_dispatched, notCorr>>

\* The broker answers a Request it has not answered yet.
BrokerReplies ==
    /\ \E k \in 1..Len(co_sent) :
         /\ co_sent[k] \notin co_answered
         /\ co_answered' = co_answered \cup {co_sent[k]}
         /\ co_socket' = Append(co_socket, Reply(co_sent[k], FALSE, "", FALSE, "", FALSE, ""))
    /\ UNCHANGED <<seq_id, co_reply_cb, co_registered, co_invoked, co_sent, co_dispatched,
                   notCorr>>

\* Mutant: the callback of the id is taken from the mapping and called; an
\* id that has none raises KeyError.
on_reply_Unguarded(rep, cbs, invoked) ==
    IF rep.id \in cbs
    THEN [reply_cb |-> cbs \ {rep.id}, invoked |-> [invoked EXCEPT ![rep.id] = @ + 1],
          exit |-> FALSE]
    ELSE [reply_cb |-> cbs, invoked |-> invoked, exit |-> TRUE]

\* AsynClient.on_reply, which Service does not override: `pass`.
on_reply(rep, cbs, invoked) == [reply_cb |-> cbs, invoked |-> invoked, exit |-> FALSE]

\* on_message_recieved with a Reply: it is parsed and handed to on_reply.
OnReply ==
    /\ co_socket # << >>
    /\ \E r \in {on_reply(Head(co_socket), co_reply_cb, co_invoked)} :
         /\ co_reply_cb' = r.reply_cb
         /\ co_invoked' = r.invoked
    /\ co_dispatched' = co_dispatched \cup {Head(co_socket).id}
    /\ co_socket' = Tail(co_socket)
    /\ UNCHANGED <<seq_id, co_registered, co_sent, co_answered, notCorr>>

----------------------------------------------------------------------------
(* SpecConfig: a ConfigVariable from the first fetch to the updates *)

\* The values the option takes in the 'config' service.
ConfigValues == {"red", "yellow", "blue"}

\* 'config.<section>.<option>' of `color = ConfigVariable("match", "color")`.
ConfigEvent == "config.match.color"

\* The id of the 'get' request.
GetId == 7

InitCfgVars ==
    /\ cf_pc = "start"
    /\ cf_value = "None"
    /\ cf_to_broker = << >>
    /\ cf_subscribed = FALSE
    /\ cf_socket = << >>
    /\ cf_updates = 0

\* on_config_registered up to the read: syn_client.request('get', 'config')
\* sends the Request.
ConfigGet ==
    /\ cf_pc = "start"
    /\ cf_to_broker' = Append(cf_to_broker, Request(GetId, FALSE, "", "get", TRUE, ConfigEvent))
    /\ cf_pc' = "getting"
    /\ UNCHANGED <<cf_value, cf_option, cf_subscribed, cf_socket, cf_updates, notCfg>>

\* ConfigVariable.set / ConfigVariable.update: the value is stored (coerced).
variable_set(value) == value

\* One pass of the loop of syn_client.request: the Reply ends it and
\* variable.set(args) stores the value; anything else is dropped.
ConfigFetched ==
    /\ cf_pc = "getting"
    /\ cf_socket # << >>
    /\ \E r \in {request_step(GetId, Head(cf_socket))} :
         IF r.kind = "return"
         THEN /\ cf_value' = variable_set(r.value)
              /\ cf_pc' = "got"
         ELSE UNCHANGED <<cf_value, cf_pc>>
    /\ cf_socket' = Tail(cf_socket)
    /\ UNCHANGED <<cf_option, cf_to_broker, cf_subscribed, cf_updates, notCfg>>

\* _setup_asynchronous: add_subscribe_cb(event_name, ...) for the event of
\* the variable, register; the service is ready for the loop.
ConfigSubscribe ==
    /\ cf_pc = "got"
    /\ cf_to_broker' = cf_to_broker \o << Subscribe(ConfigEvent), Register(Self[1], Self[2]) >>
    /\ cf_pc' = "ready"
    /\ UNCHANGED <<cf_value, cf_option, cf_subscribed, cf_socket, cf_updates, notCfg>>

\* The Publish branch of on_message_recieved in the loop: _variable_update
\* calls variable.update(value) for the event of the variable.
ConfigDispatch ==
    /\ cf_pc = "ready"
    /\ cf_socket # << >>
    /\ cf_value' = IF Head(cf_socket).type = "Publish" /\ Head(cf_socket).event = ConfigEvent
                   THEN variable_set(Head(cf_socket).data)
                   ELSE cf_value
    /\ cf_socket' = Tail(cf_socket)
    /\ UNCHANGED <<cf_pc, cf_option, cf_to_broker, cf_subscribed, cf_updates, notCfg>>

\* The broker and the 'config' service process the next envelope of the
\* service: 'get' is answered with the current value, a Subscribe recorded.
ConfigBroker ==
    /\ cf_to_broker # << >>
    /\ cf_to_broker' = Tail(cf_to_broker)
    /\ \E m \in {Head(cf_to_broker)} :
         CASE m.type = "Request" ->
                /\ cf_socket' = Append(cf_socket, Reply(m.id, TRUE, cf_option,
                                                       FALSE, "", FALSE, ""))
                /\ UNCHANGED cf_subscribed
           [] m.type = "Subscribe" ->
                /\ cf_subscribed' = TRUE
                /\ UNCHANGED cf_socket
           [] OTHER -> UNCHANGED <<cf_subscribed, cf_socket>>
    /\ UNCHANGED <<cf_pc, cf_value, cf_option, cf_updates, notCfg>>

\* The option is set to another value: 'config' publishes the event, which
\* the broker sends to the connections subscribed at that moment.
ConfigUpdate(v) ==
    /\ cf_updates < MaxUpdates
    /\ v # cf_option
    /\ cf_option' = v
    /\ cf_updates' = cf_updates + 1
    /\ cf_socket' = IF cf_subscribed
                    THEN Append(cf_socket, Publish(ConfigEvent, TRUE, v))
                    ELSE cf_socket
    /\ UNCHANGED <<cf_pc, cf_value, cf_to_broker, cf_subscribed, notCfg>>

----------------------------------------------------------------------------
(* SpecPush: AsynClient._send_message called from the threads of a Service *)

\* The thread of the dispatch loop (it sends Replies and the Publishes of
\* handlers) and a @Service.thread worker (it calls publish() or log()).
Senders == {"loop", "worker"}

\* What a push appends to the queue of the channel.
Chunk(frame, part) == [frame |-> frame, part |-> part]

InitPushVars ==
    /\ ps_pc = [t \in Senders |-> "idle"]
    /\ ps_frame = [t \in Senders |-> 0]
    /\ ps_fifo = << >>
    /\ ps_frames = 0

\* self.push(struct.pack("!I", len(msg))); _send_message takes no lock, a
\* thread may begin to send at any time.
PushHeader(t) ==
    /\ ps_pc[t] = "idle"
    /\ ps_frames < MaxPushes
    /\ ps_frames' = ps_frames + 1
    /\ ps_frame' = [ps_frame EXCEPT ![t] = ps_frames + 1]
    /\ ps_fifo' = Append(ps_fifo, Chunk(ps_frames + 1, "header"))
    /\ ps_pc' = [ps_pc EXCEPT ![t] = "header"]
    /\ UNCHANGED notPush

\* self.push(msg)
PushBody(t) ==
    /\ ps_pc[t] = "header"
    /\ ps_fifo' = Append(ps_fifo, Chunk(ps_frame[t], "body"))
    /\ ps_pc' = [ps_pc EXCEPT ![t] = "idle"]
    /\ UNCHANGED <<ps_frame, ps_frames, notPush>>

----------------------------------------------------------------------------
(* SpecShared: SynClient.request called by two threads on one connection *)

InitSharedVars ==
    /\ sh_pc = [t \in Callers |-> "idle"]
    /\ sh_id = [t \in Callers |-> 0]
    /\ sh_got = [t \in Callers |-> NoMessage]
    /\ sh_socket = << >>
    /\ sh_answered = {}
    /\ sh_dropped = {}
    /\ sh_calls = 0

\* A Reply read by a caller and discarded.
Dropped(t, reply) == [by |-> t, id |-> reply.id]

\* SynClient.request up to its loop: the id is allocated, the Request sent.
\* (The two statements of the allocation are taken as one step here.)
SharedRequest(t) ==
    /\ sh_pc[t] # "waiting"
    /\ sh_calls < MaxSharedCalls
    /\ sh_id' = [sh_id EXCEPT ![t] = seq_id]
    /\ seq_id' = increment(seq_id)
    /\ sh_pc' = [sh_pc EXCEPT ![t] = "waiting"]
    /\ sh_calls' = sh_calls + 1
    /\ UNCHANGED <<sh_got, sh_socket, sh_answered, sh_dropped, notShared>>

\* The broker answers, once, the Request of a caller.
SharedAnswer(t) ==
    /\ sh_pc[t] = "waiting"
    /\ sh_id[t] \notin sh_answered
    /\ sh_answered' = sh_answered \cup {sh_id[t]}
    /\ \E hd \in BOOLEAN :
         sh_socket' = Append(sh_socket,
                             Reply(sh_id[t], hd, IF hd THEN "\"bar\"" ELSE "",
                                   FALSE, "", FALSE, ""))
    /\ UNCHANGED <<seq_id, sh_pc, sh_id, sh_got, sh_dropped, sh_calls, notShared>>

\* Mutant: an envelope the reader drops is put back for another reader.
consume_PutBack(sock, r) ==
    IF r.kind = "continue" THEN Append(Tail(sock), Head(sock)) ELSE Tail(sock)

\* self._socket.recv: the bytes read are taken off the socket, whatever the
\* loop then does with the message.
consume(sock, r) == Tail(sock)

\* One pass of the loop of caller t: it reads the next envelope of the
\* socket, whoever it is for.
SharedRecv(t) ==
    /\ sh_pc[t] = "waiting"
    /\ sh_socket # << >>
    /\ \E r \in {request_step(sh_id[t], Head(sh_socket))} :
         IF r.kind = "continue"
         THEN /\ sh_dropped' = sh_dropped \cup {Dropped(t, Head(sh_socket))}
              /\ UNCHANGED <<sh_pc, sh_got>>
         ELSE /\ sh_pc' = [sh_pc EXCEPT ![t] = IF r.kind = "raise" THEN "raised"
                                                ELSE "returned"]
              /\ sh_got' = [sh_got EXCEPT ![t] = Head(sh_socket)]
              /\ UNCHANGED sh_dropped
    /\ sh_socket' = consume(sh_socket, request_step(sh_id[t], Head(sh_socket)))
    /\ UNCHANGED <<seq_id, sh_id, sh_answered, sh_calls, notShared>>

----------------------------------------------------------------------------
(* SpecIdRange: the values of self._request_seq_id *)

\* The counter is a Python int, without bound. It is kept as two limbs of
\* 16 bits, value = hi * 2^16 + lo with 0 <= lo < 2^16; hi is unbounded, and
\* the value fits 32 bits exactly when hi < 2^16.
Limb == 65536

Wide(hi, lo) == [hi |-> hi, lo |-> lo]

\* random.randrange(0, 2**32): seeds at both ends of the range and inside it.
WideSeeds ==
    { Wide(hi, lo) : hi \in {0, 1, Limb - 2, Limb - 1}, lo \in {0, 7, Limb - 2, Limb - 1} }

\* 0 <= v < 2^32
IsUint32(v) == v.hi >= 0 /\ v.hi < Limb /\ v.lo >= 0 /\ v.lo < Limb

\* `self._request_seq_id += 1` on the limbs: no wrap, the sum is carried.
increment_wide(v) ==
    IF v.lo + 1 = Limb THEN Wide(v.hi + 1, 0) ELSE Wide(v.hi, v.lo + 1)

\* The generated module cellaserv_pb2 declares Request.id; an assignment
\* out of the range of the field raises ValueError.
IdFields == {"uint32", "uint64"}

FieldAccepts(field, v) == field = "uint64" \/ IsUint32(v)

InitIdVars ==
    /\ ir_assigned = << >>
    /\ ir_returned = 0
    /\ ir_errors = 0

\* AbstractClient.request: request.id = self._request_seq_id; the counter
\* is incremented and the id returned unless the assignment raised.
IdRequest ==
    /\ Len(ir_assigned) < MaxIdRequests
    /\ ir_assigned' = Append(ir_assigned, ir_seq)
    /\ IF FieldAccepts(ir_field, ir_seq)
       THEN /\ ir_seq' = increment_wide(ir_seq)
            /\ ir_returned' = ir_returned + 1
            /\ UNCHANGED ir_errors
       ELSE /\ ir_errors' = ir_errors + 1
            /\ UNCHANGED <<ir_seq, ir_returned>>
    /\ UNCHANGED <<ir_field, notId>>

----------------------------------------------------------------------------
(* SpecArgs: the arguments on_request passes to a handler *)

\* The Services of the process, named by their identification.
ArgInstances == {"foo", "bar"}

\* Data of the Requests: every type json.loads gives, and bytes it rejects.
ArgData == {B_LIST, B_DICT, B_INT, B_NULL, B_STR, B_JUNK, B_BADUTF}

\* Requests for the action 'time' of whichever instance receives them.
ArgRequests ==
    { Request(7, FALSE, "", "time", hd, IF hd THEN d ELSE "") :
        hd \in BOOLEAN, d \in ArgData }

\* callback.__get__(self, type(self)): the function bound to the instance.
bound_cb(callback, inst) == [func |-> callback, self |-> inst]

\* A logged invocation: bound_cb(*args, **kwargs) while `inst` dispatched req.
Invocation(inst, req, call) ==
    [to |-> inst, req |-> req, bound |-> bound_cb(call.method, inst),
     args |-> call.args, kwargs |-> call.kwargs]

InitArgVars == ar_log = << >>

\* on_message_recieved of instance `inst` with a Request: one on_request.
ArgRequest(inst, req) ==
    /\ Len(ar_log) < MaxArgCalls
    /\ \E out \in HandlerOutcomes :
         LET cs == on_request(inst, req, out).calls
         IN  ar_log' = ar_log \o [k \in 1..Len(cs) |-> Invocation(inst, req, cs[k])]
    /\ UNCHANGED notArgs

----------------------------------------------------------------------------
(* SpecTables: the tables of a Service while it dispatches *)

\* dict[key] of a plain dict: the value, or KeyError.
dict_getitem(d, key) ==
    IF key \in DOMAIN d THEN [found |-> TRUE, value |-> d[key]]
    ELSE [found |-> FALSE, value |-> "KeyError"]

\* d[key] of a defaultdict(list): a missing key is first stored with a new
\* empty list (defaultdict.__missing__), then read.
defaultdict_getitem(d, key) ==
    IF key \in DOMAIN d THEN [dict |-> d, value |-> d[key]]
    ELSE [dict |-> d @@ (key :> << >>), value |-> << >>]

\* Events of the Publishes that reach the service: the one it declares, the
\* one its dependency wait subscribed to, and one of another subscription.
TableEvents == PublishEvents \cup {"log.coding-error"}

TablePublishes ==
    { Publish(e, hd, IF hd THEN d ELSE "") :
        e \in TableEvents, hd \in BOOLEAN, d \in {B_DICT, B_LIST} }

\* Requests for an action of the table and for a method that is not in it.
TableRequests == { Request(7, FALSE, "", m, FALSE, "") : m \in {"time", "bogus"} }

\* Replies of the broker to requests the service made.
TableReplies == { Reply(i, FALSE, "", FALSE, "", FALSE, "") : i \in RequestIds }

\* The reader when found_terminator hands a message on: it expects a header.
HeaderState == [terminator |-> 4, read_header |-> TRUE, ibuffer |-> << >>]

\* The tables once the constructor has returned: ServiceMeta.__init__ built
\* _actions and _events, Service.__init__ an empty _reply_cb, and
\* _setup_asynchronous added one callback per event.
InitTableVars ==
    /\ tb_actions = [m \in Actions |-> m]
    /\ tb_events = [e \in Events |-> e]
    /\ tb_events_cb = [e \in Events |-> << e >>]
    /\ tb_events_pattern_cb = << >>
    /\ tb_reply_cb = {}
    /\ tb_invoked = [i \in RequestIds |-> 0]
    /\ tb_chan = HeaderState
    /\ tb_open = TRUE
    /\ tb_cur = NoMessage
    /\ tb_calls = << >>
    /\ tb_sent = << >>
    /\ tb_replies = 0
    /\ tb_dispatched = 0

\* on_message_recieved with a Request: on_request looks the method up.
TableRequest(req) ==
    /\ tb_open
    /\ tb_dispatched < MaxTableMessages
    /\ \E out \in OutcomesFor(dict_getitem(tb_actions, req.method).found) :
         LET d == on_request(NoneIdent, req, out)
         IN  /\ tb_calls' = d.calls
             /\ tb_sent' = d.sent
             /\ tb_open' = ~d.exit
    /\ tb_cur' = req
    /\ tb_dispatched' = tb_dispatched + 1
    /\ UNCHANGED <<tb_actions, tb_events, tb_events_cb, tb_events_pattern_cb, tb_reply_cb,
                   tb_invoked, tb_chan, tb_replies, notTables>>

\* `for cb in self._events_cb[pub.event]`: each callback is a _wrap; an
\* exception that leaves one leaves the loop.
RECURSIVE run_wrapped(_, _, _, _)
run_wrapped(cbs, pub, out, acc) ==
    IF cbs = << >> \/ acc.exit THEN acc
    ELSE LET d == event_wrap(Head(cbs), pub.has_data, pub.data, out)
         IN  run_wrapped(Tail(cbs), pub, out,
                         Dispatched(acc.sent \o d.sent, acc.calls \o d.calls, d.exit))

\* on_message_recieved with a Publish: `for cb in self._events_cb[pub.event]`,
\* then the iteration over self._events_pattern_cb.items().
TablePublish(pub) ==
    /\ tb_open
    /\ tb_dispatched < MaxTableMessages
    /\ LET got == defaultdict_getitem(tb_events_cb, pub.event)
       IN  /\ tb_events_cb' = got.dict
           /\ \E out \in OutcomesFor(got.value # << >>) :
                LET d == run_wrapped(got.value, pub, out, Dispatched(<< >>, << >>, FALSE))
                IN  /\ tb_calls' = d.calls
                    /\ tb_sent' = d.sent
                    /\ tb_open' = ~d.exit
    /\ tb_cur' = pub
    /\ tb_dispatched' = tb_dispatched + 1
    /\ UNCHANGED <<tb_actions, tb_events, tb_events_pattern_cb, tb_reply_cb, tb_invoked,
                   tb_chan, tb_replies, notTables>>

\* on_message_recieved with a Reply: it is parsed and handed to on_reply.
TableReply(reply) ==
    /\ tb_open
    /\ tb_dispatched < MaxTableMessages
    /\ \E r \in {on_reply(reply, tb_reply_cb, tb_invoked)} :
         /\ tb_reply_cb' = r.reply_cb
         /\ tb_invoked' = r.invoked
         /\ tb_open' = ~r.exit
    /\ tb_calls' = << >>
    /\ tb_sent' = << >>
    /\ tb_cur' = reply
    /\ tb_replies' = tb_replies + 1
    /\ tb_dispatched' = tb_dispatched + 1
    /\ UNCHANGED <<tb_actions, tb_events, tb_events_cb, tb_events_pattern_cb, tb_chan,
                   notTables>>

----------------------------------------------------------------------------
(* SpecPayload: the data field of the envelopes a client sends *)

\* The data argument of a call: None (not given), b"" and other bytes.
PayloadArgs == {"None", "", "x", B_DICT}

\* The operations that take a data argument.
PayloadOps == {"request", "publish", "reply_to"}

\* `if data:` - None and the empty byte string are both false.
SetsData(data) == data # "None" /\ data # ""

\* AbstractClient.request(method, service, data=data): the Request sent.
request_envelope(id, method, data) ==
    Request(id, FALSE, "", method, SetsData(data), IF SetsData(data) THEN data ELSE "")

\* AbstractClient.publish(event, data=data): the Publish sent.
publish_envelope(event, data) ==
    Publish(event, SetsData(data), IF SetsData(data) THEN data ELSE "")

InitPayloadVars ==
    /\ pl_seq = 7
    /\ pl_log = << >>

\* One call of request(), publish() or reply_to() with the data argument.
PayloadSend(op, data) ==
    /\ Len(pl_log) < MaxSends
    /\ LET env == CASE op = "request" -> request_envelope(pl_seq, "time", data)
                     [] op = "publish" -> publish_envelope("tick", data)
                     [] op = "reply_to" ->
                            reply_to(Request(8, FALSE, "", "time", FALSE, ""), data)[1]
       IN  pl_log' = Append(pl_log, [op |-> op, data |-> data, envelope |-> env])
    /\ pl_seq' = IF op = "request" THEN increment(pl_seq) ELSE pl_seq
    /\ UNCHANGED notPayload

----------------------------------------------------------------------------
(* SpecEvents: the events a Service class declares *)

\* A method decorated with @Service.event(event), and an Event field; set
\* and clear are the arguments of Event(), "None" when they are not given.
Handler(name, event) ==
    [name |-> name, kind |-> "handler", events |-> << event >>,
     set |-> "None", clear |-> "None"]

EventField(name, set, clear) ==
    [name |-> name, kind |-> "Event", events |-> << >>, set |-> set, clear |-> clear]

N_MYSET == << "my-set" >>
N_MYCLEAR == << "my-clear" >>

\* The members a class body may hold, in the order of their names: two
\* handlers of the same event, a handler of a pattern, two Event fields.
Members ==
    << Handler("a", N_X), Handler("b", N_X), Handler("on_log", P_LSTAR),
       EventField("r", "None", "None"), EventField("s", N_MYSET, N_MYCLEAR) >>

RECURSIVE Keep(_, _)
Keep(members, names) ==
    IF members = << >> THEN << >>
    ELSE (IF Head(members).name \in names THEN << Head(members) >> ELSE << >>)
           \o Keep(Tail(members), names)

\* The class definitions: inspect.getmembers lists the members by name.
ClassBodies ==
    { Keep(Members, names) : names \in SUBSET {"a", "b", "on_log", "r", "s"} }

\* The Event fields of the classes.
FieldNames == {"r", "s"}

\* `member._event_set or name` and `member._event_clear or name + "_clear"`.
event_set_name(member) ==
    IF member.set # "None" THEN member.set ELSE << member.name >>

event_clear_name(member) ==
    IF member.clear # "None" THEN member.clear ELSE << member.name, "_clear" >>

\* d[key] = value
dict_setitem(d, key, value) ==
    [k \in DOMAIN d \cup {key} |-> IF k = key THEN value ELSE d[k]]

\* What is stored in cls._events: a method, or the wrapper of an Event.
Stored(member, role) == [member |-> member.name, role |-> role]

\* The loop of ServiceMeta.__init__ over the members, for _events.
RECURSIVE meta_events(_, _)
meta_events(members, events) ==
    IF members = << >> THEN events
    ELSE LET m == Head(members)
             declared ==
                 IF m.kind = "handler"
                 THEN dict_setitem(events, m.events[1], Stored(m, "handler"))
                 ELSE dict_setitem(
                          dict_setitem(events, event_set_name(m), Stored(m, "set")),
                          event_clear_name(m), Stored(m, "clear"))
         IN  meta_events(Tail(members), declared)

\* Mutant: _event_clear clears the Event and keeps the data it had.
event_clear_KeepsData(field, kwargs) == [is_set |-> FALSE, data |-> field.data]

\* _event_set and _event_clear: event.data = kwargs, then set() or clear().
event_set(field, kwargs) == [is_set |-> TRUE, data |-> kwargs]

event_clear(field, kwargs) == [is_set |-> FALSE, data |-> kwargs]

\* An Event before any Publish: not set, data = {}.
NewEvent == [is_set |-> FALSE, data |-> << >>]

\* No Publish of the events of a field has been received.
NoPublish == [role |-> "none", data |-> << >>]

InitEventVars ==
    /\ ev_pc = "class"
    /\ ev_events = << >>
    /\ ev_events_cb = << >>
    /\ ev_subscribed = << >>
    /\ ev_fields = [f \in FieldNames |-> NewEvent]
    /\ ev_pub = NoMessage
    /\ ev_calls = << >>
    /\ ev_sent = << >>
    /\ ev_recent = [f \in FieldNames |-> NoPublish]
    /\ ev_applied = [f \in FieldNames |-> NoPublish]
    /\ ev_publishes = 0

\* The class statement ends: ServiceMeta.__init__ builds cls._events.
MetaInit ==
    /\ ev_pc = "class"
    /\ ev_events' = meta_events(ev_class, << >>)
    /\ ev_pc' = "built"
    /\ UNCHANGED <<ev_class, ev_events_cb, ev_subscribed, ev_fields, ev_pub, ev_calls,
                   ev_sent, ev_recent, ev_applied, ev_publishes, notEvents>>

\* The keys of a dictionary in one order (the order of .items()).
RECURSIVE Keys(_)
Keys(d) ==
    IF DOMAIN d = {} THEN << >>
    ELSE LET k == CHOOSE x \in DOMAIN d : TRUE
         IN  << k >> \o Keys([x \in DOMAIN d \ {k} |-> d[x]])

\* _setup_asynchronous: add_subscribe_cb(event_name, _event_wrap(callback_bound))
\* for each item of self._events; each call appends the callback to
\* self._events_cb[event_name] and sends a Subscribe for event_name.
EventSetup ==
    /\ ev_pc = "built"
    /\ ev_events_cb' = [e \in DOMAIN ev_events |-> << ev_events[e] >>]
    /\ ev_subscribed' = [k \in 1..Len(Keys(ev_events)) |-> Subscribe(Keys(ev_events)[k])]
    /\ ev_pc' = "ready"
    /\ UNCHANGED <<ev_class, ev_events, ev_fields, ev_pub, ev_calls, ev_sent, ev_recent,
                   ev_applied, ev_publishes, notEvents>>

\* Events and data of the Publishes the service receives.
DeclaredEvents ==
    {N_X, N_LM, P_LSTAR, << "r" >>, << "r", "_clear" >>, N_MYSET, N_MYCLEAR}

EventPublishes ==
    { Publish(e, hd, IF hd THEN d ELSE "") :
        e \in DeclaredEvents, hd \in BOOLEAN, d \in {B_DICT, B_LIST, B_JUNK} }

\* What a declared handler does when it is called; the wrappers of an Event
\* accept any keyword and return.
MemberOutcomes(cbs) ==
    IF \E k \in 1..Len(cbs) : cbs[k].role = "handler"
    THEN {NoOutcome, [kind |-> "raise", value |-> "boom"]}
    ELSE {NoOutcome}

\* The Event fields after the calls made for a Publish.
RECURSIVE apply_calls(_, _)
apply_calls(cs, fields) ==
    IF cs = << >> THEN fields
    ELSE LET c == Head(cs)
             f == c.method.member
             after ==
                 IF c.result.kind # "return" \/ c.method.role = "handler" THEN fields
                 ELSE IF c.method.role = "set"
                 THEN [fields EXCEPT ![f] = event_set(@, c.kwargs)]
                 ELSE [fields EXCEPT ![f] = event_clear(@, c.kwargs)]
         IN  apply_calls(Tail(cs), after)

\* The data of the Publish is absent or a JSON object: it gives keyword data.
HasKeywordData(pub) == ~pub.has_data \/ pub.data = B_DICT

KeywordData(pub) == IF pub.has_data THEN DictItems(Value("dict", pub.data)) ELSE << >>

\* The last Publish of the set or clear event of each Event field of the class.
Latest(recent, pub, only_keywords) ==
    [f \in FieldNames |->
        IF only_keywords /\ ~HasKeywordData(pub) THEN recent[f]
        ELSE IF \E k \in 1..Len(ev_class) :
                   /\ ev_class[k].name = f
                   /\ event_set_name(ev_class[k]) = pub.event
        THEN [role |-> "set", data |-> KeywordData(pub)]
        ELSE IF \E k \in 1..Len(ev_class) :
                   /\ ev_class[k].name = f
                   /\ event_clear_name(ev_class[k]) = pub.event
        THEN [role |-> "clear", data |-> KeywordData(pub)]
        ELSE recent[f]]

\* on_message_recieved with a Publish, in a running Service of the class.
EventPublish(pub) ==
    /\ ev_pc = "ready"
    /\ ev_publishes < MaxEventPublishes
    /\ LET got == defaultdict_getitem(ev_events_cb, pub.event)
       IN  /\ ev_events_cb' = got.dict
           /\ \E out \in MemberOutcomes(got.value) :
                LET d == run_wrapped(got.value, pub, out, Dispatched(<< >>, << >>, FALSE))
                IN  /\ ev_calls' = d.calls
                    /\ ev_sent' = d.sent
                    /\ ev_fields' = apply_calls(d.calls, ev_fields)
                    /\ ev_pc' = IF d.exit THEN "closed" ELSE "ready"
    /\ ev_pub' = pub
    /\ ev_recent' = Latest(ev_recent, pub, FALSE)
    /\ ev_applied' = Latest(ev_applied, pub, TRUE)
    /\ ev_publishes' = ev_publishes + 1
    /\ UNCHANGED <<ev_class, ev_events, ev_subscribed, notEvents>>

----------------------------------------------------------------------------
(* SpecText: the text-mode AsynClient of cellaserv.py *)

\* Characters: the newline, the backslash, the double quote, letters.
NL == "\n"
BSL == "\\"
QUOTE == "\""

\* Names of notifications: plain, with a newline inside, and the two
\* characters backslash and n.
NotifyNames == { << "a" >>, << "a", NL, "b" >>, << BSL, "n" >> }

\* The messages (Python dicts) written: a notify of a name, and a dict
\* that holds the key 'ack' (command "ack" here).
Notify(name) == [command |-> "notify", notify |-> name]
Ack == [command |-> "ack", notify |-> << >>]

TextMessages == { Notify(n) : n \in NotifyNames } \cup {Ack}

\* Mutant: the newline is written as it is.
json_escape_RawNewline(c) ==
    CASE c = BSL -> << BSL, BSL >>
      [] c = QUOTE -> << BSL, QUOTE >>
      [] OTHER -> << c >>

\* json.dumps of one character of a str.
json_escape(c) ==
    CASE c = NL -> << BSL, "n" >>
      [] c = BSL -> << BSL, BSL >>
      [] c = QUOTE -> << BSL, QUOTE >>
      [] OTHER -> << c >>

\* json.dumps of a str: the escaped characters between double quotes.
RECURSIVE json_chars(_)
json_chars(str) ==
    IF str = << >> THEN << >> ELSE json_escape(Head(str)) \o json_chars(Tail(str))

json_string(str) == << QUOTE >> \o json_chars(str) \o << QUOTE >>

\* json.dumps(message).encode('ascii'): the braces, keys and separators of
\* the object are kept as one byte each, they hold no newline.
text_dumps(message) ==
    IF message.command = "ack" THEN << "{ack}" >>
    ELSE << "{notify:" >> \o json_string(message.notify) \o << "}" >>

\* _send_message: the encoding and one newline.
RECURSIVE EncodeLines(_)
EncodeLines(msgs) ==
    IF msgs = << >> THEN << >>
    ELSE text_dumps(Head(msgs)) \o << NL >> \o EncodeLines(Tail(msgs))

\* The characters between the quotes are those of a JSON string.
RECURSIVE ValidChars(_)
ValidChars(t) ==
    IF t = << >> THEN TRUE
    ELSE IF Head(t) = BSL
    THEN Len(t) >= 2 /\ t[2] \in {"n", BSL, QUOTE} /\ ValidChars(Drop(t, 2))
    ELSE Head(t) \notin {NL, QUOTE} /\ ValidChars(Tail(t))

\* The str a JSON string stands for.
RECURSIVE json_unescape(_)
json_unescape(t) ==
    IF t = << >> THEN << >>
    ELSE IF Head(t) = BSL
    THEN << (IF t[2] = "n" THEN NL ELSE t[2]) >> \o json_unescape(Drop(t, 2))
    ELSE << Head(t) >> \o json_unescape(Tail(t))

\* json.loads(byte_data.decode('ascii')): the dict, or ValueError.
text_loads(line) ==
    IF line = << "{ack}" >> THEN Returned(Ack)
    ELSE IF /\ Len(line) >= 4
            /\ line[1] = "{notify:" /\ line[2] = QUOTE
            /\ line[Len(line) - 1] = QUOTE /\ line[Len(line)] = "}"
            /\ ValidChars(SubSeq(line, 3, Len(line) - 2))
    THEN Returned(Notify(json_unescape(SubSeq(line, 3, Len(line) - 2))))
    ELSE Raised

\* The callbacks registered and the name of the function given as ack callback.
TextCallbacks == {"f"}

NoCallback == "None"

InitTextVars ==
    /\ tx_sent = << >>
    /\ tx_wire = << >>
    /\ tx_nreceived = 0
    /\ tx_ibuffer = << >>
    /\ tx_open = TRUE
    /\ tx_delivered = << >>
    /\ tx_ack_cb = NoCallback
    /\ tx_notify_cb = << >>
    /\ tx_called = << >>
    /\ tx_registered = {}
    /\ tx_expected = << >>

\* set_ack_cb(f)
SetAckCb(f) ==
    /\ tx_ack_cb = NoCallback
    /\ tx_ack_cb' = f
    /\ UNCHANGED <<tx_sent, tx_wire, tx_nreceived, tx_ibuffer, tx_open, tx_delivered,
                   tx_notify_cb, tx_called, tx_registered, tx_expected, notText>>

\* connect_notify(notify, notify_cb):
\* `self._notify_cb[notify_cb].append(notify_cb)` - the key is the callback.
connect_notify(d, notify, notify_cb) ==
    LET got == defaultdict_getitem(d, notify_cb)
    IN  [got.dict EXCEPT ![notify_cb] = Append(got.value, notify_cb)]

ConnectNotify(notify, notify_cb) ==
    /\ Cardinality(tx_registered) < MaxConnects
    /\ <<notify, notify_cb>> \notin tx_registered
    /\ tx_notify_cb' = connect_notify(tx_notify_cb, notify, notify_cb)
    /\ tx_registered' = tx_registered \cup {<<notify, notify_cb>>}
    /\ UNCHANGED <<tx_sent, tx_wire, tx_nreceived, tx_ibuffer, tx_open, tx_delivered,
                   tx_ack_cb, tx_called, tx_expected, notText>>

\* The peer sends a message: one push of the encoding and its newline.
TextSend(message) ==
    /\ Len(tx_sent) < MaxLines
    /\ tx_sent' = Append(tx_sent, message)
    /\ tx_wire' = tx_wire \o text_dumps(message) \o << NL >>
    /\ UNCHANGED <<tx_nreceived, tx_ibuffer, tx_open, tx_delivered, tx_ack_cb,
                   tx_notify_cb, tx_called, tx_registered, tx_expected, notText>>

\* The state of the client that reading changes.
TextReader(ibuf, isopen, msgs, cbs, log) ==
    [ibuffer |-> ibuf, open |-> isopen, delivered |-> msgs,
     notify_cb |-> cbs, called |-> log]

\* The calls of a list of callbacks with the message.
CallsOf(cbs, message) == [k \in 1..Len(cbs) |-> [cb |-> cbs[k], message |-> message]]

\* message_recieved: the ack callback for an ack when there is one, else for
\* a notify `for cb in self._notify_cb['notify']`.
message_recieved(r, ack_cb, message) ==
    IF message.command = "ack" /\ ack_cb # NoCallback
    THEN [r EXCEPT !.called = Append(@, [cb |-> ack_cb, message |-> message])]
    ELSE IF message.command = "notify"
    THEN LET got == defaultdict_getitem(r.notify_cb, "notify")
         IN  [r EXCEPT !.notify_cb = got.dict,
                       !.called = @ \o CallsOf(got.value, message)]
    ELSE r

\* found_terminator: the chunks are joined and decoded, the buffer emptied,
\* the message handed to message_recieved; ValueError closes the channel.
text_found_terminator(r, ack_cb) ==
    LET parsed == text_loads(r.ibuffer)
    IN  IF parsed.raised THEN [r EXCEPT !.ibuffer = << >>, !.open = FALSE]
        ELSE message_recieved(
                 [r EXCEPT !.ibuffer = << >>, !.delivered = Append(@, parsed.value)],
                 ack_cb, parsed.value)

\* The index of the first newline of buf, 0 when it has none.
FirstNewline(buf) ==
    IF \E k \in 1..Len(buf) : buf[k] = NL
    THEN CHOOSE k \in 1..Len(buf) :
             buf[k] = NL /\ \A j \in 1..(k - 1) : buf[j] # NL
    ELSE 0

\* async_chat.handle_read with the terminator b'\n': what precedes each
\* newline is collected and found_terminator called, the rest is collected.
RECURSIVE text_handle_read(_, _, _)
text_handle_read(r, ack_cb, buf) ==
    IF buf = << >> \/ ~r.open THEN r
    ELSE IF FirstNewline(buf) = 0 THEN [r EXCEPT !.ibuffer = @ \o buf]
    ELSE text_handle_read(
             text_found_terminator(
                 [r EXCEPT !.ibuffer = @ \o Take(buf, FirstNewline(buf) - 1)], ack_cb),
             ack_cb, Drop(buf, FirstNewline(buf)))

\* The callbacks connected to a notification.
ConnectedTo(notify) ==
    IF \E cb \in TextCallbacks : <<notify, cb>> \in tx_registered
    THEN << CHOOSE cb \in TextCallbacks : <<notify, cb>> \in tx_registered >>
    ELSE << >>

\* The calls connect_notify is to cause for a message delivered: one for
\* each callback connected to the notification of the message.
Due(message) ==
    IF message.command # "notify" THEN << >>
    ELSE CallsOf(ConnectedTo(message.notify), message)

RECURSIVE DueAll(_)
DueAll(msgs) == IF msgs = << >> THEN << >> ELSE Due(Head(msgs)) \o DueAll(Tail(msgs))

\* The socket is readable: recv returns some of the bytes, handle_read runs.
TextRecv ==
    /\ tx_open
    /\ tx_wire # << >>
    /\ \E n \in 1..Len(tx_wire) :
         /\ \E r \in {text_handle_read(
                          TextReader(tx_ibuffer, tx_open, tx_delivered, tx_notify_cb,
                                     tx_called),
                          tx_ack_cb, Take(tx_wire, n))} :
              /\ tx_ibuffer' = r.ibuffer
              /\ tx_open' = r.open
              /\ tx_delivered' = r.delivered
              /\ tx_notify_cb' = r.notify_cb
              /\ tx_called' = r.called
              /\ tx_expected' =
                     tx_expected \o DueAll(Drop(r.delivered, Len(tx_delivered)))
         /\ tx_wire' = Drop(tx_wire, n)
         /\ tx_nreceived' = tx_nreceived + n
    /\ UNCHANGED <<tx_sent, tx_ack_cb, tx_registered, notText>>

----------------------------------------------------------------------------
(* The specifications *)

\* The variables of a part that a specification does not use.
NoDispatch == InitDispatchVars /\ identification = NoneIdent

NoRequest == InitRequestVars /\ seq_id = 0

\* AbstractClient.__init__ draws the seed, SynClient.__init__ keeps the socket.
InitSynClient == InitRequestVars /\ seq_id \in Seeds

NoStartup == InitStartupVars /\ deps = {} /\ registered = {}

NoAlloc == InitAllocVars

NoLoop == InitLoopVars /\ has_require = FALSE /\ has_config = FALSE

NoFrame == frames_sent = << >> /\ InitFrameVars

NoFan == InitFanVars /\ wrapping = FALSE /\ raising = {}

NoReply == InitReplyVars

NoCorr == InitCorrVars

NoCfg == InitCfgVars /\ cf_option = "red"

NoPush == InitPushVars

NoShared == InitSharedVars

NoId == InitIdVars /\ ir_seq = Wide(0, 0) /\ ir_field = "uint32"

NoArgs == InitArgVars

NoTables == InitTableVars

NoPayload == InitPayloadVars

NoText == InitTextVars

NoEvents == InitEventVars /\ ev_class = << >>

NoFinal == NoArgs /\ NoTables /\ NoEvents /\ NoPayload /\ NoText

\* For each of the last specifications, the variables of the others, unused.
RestArgs == NoTables /\ NoEvents /\ NoPayload /\ NoText

RestTables == NoArgs /\ NoEvents /\ NoPayload /\ NoText

RestPayload == NoArgs /\ NoTables /\ NoEvents /\ NoText

RestText == NoArgs /\ NoTables /\ NoEvents /\ NoPayload

RestEvents == NoArgs /\ NoTables /\ NoPayload /\ NoText

\* The variables of the six specifications after the first eight, unused.
NoMid == NoReply /\ NoCorr /\ NoCfg /\ NoPush /\ NoShared /\ NoId

NoLate == NoMid /\ NoFinal

NoExtra == NoAlloc /\ NoLoop /\ NoFrame /\ NoFan /\ NoLate

InitDispatch == InitDispatchVars /\ NoRequest /\ NoStartup /\ NoExtra

NextDispatch == DeliverRequest \/ DeliverPublish

SpecDispatch == InitDispatch /\ [][NextDispatch]_vars

InitRequest == InitSynClient /\ NoDispatch /\ NoStartup /\ NoExtra

NextRequest == ClientRequest \/ BrokerSend \/ ClientRecv

SpecRequest == InitRequest /\ [][NextRequest]_vars

\* The caller's thread runs while it has something to read.
LiveSpecRequest == SpecRequest /\ WF_vars(ClientRecv)

InitStartup == InitStartupVars /\ InitSynClient /\ NoDispatch /\ NoExtra

NextStartup ==
    \/ SetupDependencies
    \/ ListRecv
    \/ WaitRecv
    \/ RunCallbacks
    \/ SetupAsynchronous
    \/ StartThread
    \/ BrokerProcess
    \/ OtherRegisters
    \/ BrokerStray

SpecStartup == InitStartup /\ [][NextStartup]_vars

\* The constructor's thread runs when it can, and the broker processes
\* what it receives; nothing obliges another service to register.
LiveSpecStartup ==
    /\ SpecStartup
    /\ WF_vars(SetupDependencies)
    /\ WF_vars(ListRecv)
    /\ WF_vars(WaitRecv)
    /\ WF_vars(RunCallbacks)
    /\ WF_vars(SetupAsynchronous)
    /\ WF_vars(StartThread)
    /\ WF_vars(BrokerProcess)

InitAlloc ==
    InitAllocVars /\ InitSynClient /\ NoDispatch /\ NoStartup /\ NoLoop /\ NoFrame
        /\ NoFan /\ NoLate

NextAlloc == \E t \in Callers : AssignId(t) \/ LoadSeq(t) \/ StoreSeq(t)

SpecAlloc == InitAlloc /\ [][NextAlloc]_vars

InitLoop ==
    /\ InitLoopVars
    /\ has_require \in BOOLEAN
    /\ has_config \in BOOLEAN
    /\ NoDispatch /\ NoRequest /\ NoStartup /\ NoAlloc /\ NoFrame /\ NoFan /\ NoLate

NextLoop ==
    \/ \E i \in Instances : InstSetupSynchronous(i)
    \/ \E i \in Instances : InstConfigCallback(i)
    \/ \E i \in Instances : InstSetupAsynchronous(i)
    \/ ServiceLoop
    \/ \E i \in Instances : BrokerDeliver(i)
    \/ \E i \in Instances : HandleRead(i)
    \/ HandlerReturn

SpecLoop == InitLoop /\ [][NextLoop]_vars

InitFrame ==
    /\ frames_sent \in FrameStreams
    /\ InitFrameVars
    /\ NoDispatch /\ NoRequest /\ NoStartup /\ NoAlloc /\ NoLoop /\ NoFan /\ NoLate

SpecAsynFrame == InitFrame /\ [][AsynRecv]_vars

NextSynFrame == SynRecvHeader \/ SynRecvBody \/ PeerCloses

SpecSynFrame == InitFrame /\ [][NextSynFrame]_vars

\* The thread of the caller runs: a recv that can return does return.
LiveSpecSynFrame ==
    SpecSynFrame /\ WF_vars(SynRecvHeader) /\ WF_vars(SynRecvBody)

InitFanout ==
    /\ InitFanVars
    /\ wrapping \in BOOLEAN
    /\ raising \in SUBSET Callbacks
    /\ NoDispatch /\ NoRequest /\ NoStartup /\ NoAlloc /\ NoLoop /\ NoFrame /\ NoLate

NextFanout ==
    \/ \E e \in ExactNames, cb \in Callbacks : AddSubscribeCb(e, cb)
    \/ \E k \in 1..Len(Patterns), cb \in Callbacks : AddSubscribePatternCb(k, cb)
    \/ \E pub \in FanPublishes : FanPublish(pub)

SpecFanout == InitFanout /\ [][NextFanout]_vars

\* The variables of the first eight specifications, unused.
NoOld ==
    NoDispatch /\ NoRequest /\ NoStartup /\ NoAlloc /\ NoLoop /\ NoFrame /\ NoFan

InitReplyData ==
    InitReplyVars /\ NoOld /\ NoCorr /\ NoCfg /\ NoPush /\ NoShared /\ NoId /\ NoFinal

InitCorrelate ==
    /\ InitCorrVars
    /\ InitSynClient
    /\ NoDispatch /\ NoStartup /\ NoAlloc /\ NoLoop /\ NoFrame /\ NoFan /\ NoReply /\ NoCfg /\ NoPush
    /\ NoShared /\ NoId /\ NoFinal

NextCorrelate ==
    \/ \E with_cb \in BOOLEAN : AsynRequest(with_cb)
    \/ BrokerReplies
    \/ OnReply

SpecCorrelate == InitCorrelate /\ [][NextCorrelate]_vars

InitConfig ==
    /\ InitCfgVars
    /\ cf_option \in ConfigValues
    /\ NoOld /\ NoReply /\ NoCorr /\ NoPush /\ NoShared /\ NoId /\ NoFinal

NextConfig ==
    \/ ConfigGet
    \/ ConfigFetched
    \/ ConfigSubscribe
    \/ ConfigDispatch
    \/ ConfigBroker
    \/ \E v \in ConfigValues : ConfigUpdate(v)

SpecConfig == InitConfig /\ [][NextConfig]_vars

InitPush ==
    InitPushVars /\ NoOld /\ NoReply /\ NoCorr /\ NoCfg /\ NoShared /\ NoId /\ NoFinal

NextPush == \E t \in Senders : PushHeader(t) \/ PushBody(t)

SpecPush == InitPush /\ [][NextPush]_vars

InitShared ==
    /\ InitSharedVars
    /\ InitSynClient
    /\ NoDispatch /\ NoStartup /\ NoAlloc /\ NoLoop /\ NoFrame /\ NoFan
    /\ NoReply /\ NoCorr /\ NoCfg /\ NoPush /\ NoId /\ NoFinal

NextShared ==
    \E t \in Callers : SharedRequest(t) \/ SharedAnswer(t) \/ SharedRecv(t)

SpecShared == InitShared /\ [][NextShared]_vars

InitIdRange ==
    /\ InitIdVars
    /\ ir_seq \in WideSeeds
    /\ ir_field \in IdFields
    /\ NoOld /\ NoReply /\ NoCorr /\ NoCfg /\ NoPush /\ NoShared /\ NoFinal

SpecIdRange == InitIdRange /\ [][IdRequest]_vars

NextReplyData == ServiceHandles \/ CallerReads

SpecReplyData == InitReplyData /\ [][NextReplyData]_vars

InitArgs == InitArgVars /\ NoOld /\ NoMid /\ RestArgs

NextArgs == \E inst \in ArgInstances, req \in ArgRequests : ArgRequest(inst, req)

SpecArgs == InitArgs /\ [][NextArgs]_vars

InitTables == InitTableVars /\ NoOld /\ NoMid /\ RestTables

NextTables ==
    \/ \E req \in TableRequests : TableRequest(req)
    \/ \E pub \in TablePublishes : TablePublish(pub)
    \/ \E reply \in TableReplies : TableReply(reply)

SpecTables == InitTables /\ [][NextTables]_vars

InitPayload == InitPayloadVars /\ NoOld /\ NoMid /\ RestPayload

NextPayload == \E op \in PayloadOps, data \in PayloadArgs : PayloadSend(op, data)

SpecPayload == InitPayload /\ [][NextPayload]_vars

InitZeroFrame ==
    /\ frames_sent \in ZeroFrameStreams
    /\ InitFrameVars
    /\ NoDispatch /\ NoRequest /\ NoStartup /\ NoAlloc /\ NoLoop /\ NoFan /\ NoLate

SpecZeroFrame == InitZeroFrame /\ [][AsynRecv]_vars

InitText == InitTextVars /\ NoOld /\ NoMid /\ RestText

NextText ==
    \/ \E f \in TextCallbacks : SetAckCb(f)
    \/ \E n \in NotifyNames, cb \in TextCallbacks : ConnectNotify(n, cb)
    \/ \E m \in TextMessages : TextSend(m)
    \/ TextRecv

SpecText == InitText /\ [][NextText]_vars

InitEvents ==
    /\ InitEventVars
    /\ ev_class \in ClassBodies
    /\ NoOld /\ NoMid /\ RestEvents

NextEvents ==
    \/ MetaInit
    \/ EventSetup
    \/ \E pub \in EventPublishes : EventPublish(pub)

SpecEvents == InitEvents /\ [][NextEvents]_vars

----------------------------------------------------------------------------
(* Claims on the dispatch of Requests (SpecDispatch) *)

\* The handler did not return: the process is gone.
Exited(cs) == \E k \in 1..Len(cs) : cs[k].result.kind = "exit"

\* The data of the Request is not valid UTF-8 or not valid JSON.
Undecodable(req) ==
    req.has_data /\ (~Utf8Valid(req.data) \/ JsonType(req.data) = "ValueError")

\* C1, as claimed: every Request delivered to on_request got exactly one
\* Reply with its id, so per id as many Replies were sent as Requests arrived.
C1_OneReplyPerDeliveredRequest ==
    \A i \in RequestIds : replied[i] = received[i]

\* C1, amended: a dispatch of a Request sends exactly one envelope, a Reply
\* with the Request's id, when the Request is addressed to this instance and
\* its handler returns or raises; it sends nothing when the Request is for
\* another identification or the handler ('kill') ends the process.
C1_ExactlyOneReply ==
    [][ received' # received =>
          LET n == IF ~WrongIdentification(identification, cur') /\ ~Exited(calls')
                   THEN 1 ELSE 0
          IN  /\ Len(sent') = n
              /\ \A i \in RequestIds :
                   replied'[i] = replied[i] + (IF i = cur'.id THEN n ELSE 0)
              /\ n = 1 => sent'[1].type = "Reply" /\ sent'[1].id = cur'.id
      ]_vars

\* C1 witness: a second Request was answered after a handler raised.
C1_Witness ==
    /\ cur.type = "Request"
    /\ Total(received) = 2
    /\ Total(replied) = 2
    /\ HandlerRaised(calls)

\* C7, as claimed: any Request with an unknown method gets the NoSuchMethod
\* Reply, whatever its service_identification.
C7_UnknownMethodAlways ==
    (cur.type = "Request" /\ cur.method \notin Actions) =>
        /\ sent = << Reply(cur.id, FALSE, "", TRUE, "NoSuchMethod", TRUE, cur.method) >>
        /\ calls = << >>

\* C7, amended: a Request addressed to this instance whose method is not in
\* the action table gets exactly one Reply with its id, error NoSuchMethod and
\* detail the method name, and no handler is invoked.
C7_UnknownMethod ==
    (/\ cur.type = "Request"
     /\ ~WrongIdentification(identification, cur)
     /\ cur.method \notin Actions) =>
        /\ sent = << Reply(cur.id, FALSE, "", TRUE, "NoSuchMethod", TRUE, cur.method) >>
        /\ calls = << >>

\* C7 witness: Request{method: "bogus", id: 8} was dispatched and answered.
C7_Witness ==
    /\ cur.type = "Request"
    /\ cur.method = "bogus"
    /\ cur.id = 8
    /\ Len(sent) = 1

\* C8: when the handler of a Request raises, exactly one Reply is sent, with
\* error Custom and detail str(e); the process is still running and the next
\* Request and the next Publish can be dispatched.
C8_HandlerException ==
    (cur.type = "Request" /\ HandlerRaised(calls)) =>
        /\ sent = << Reply(cur.id, FALSE, "", TRUE, "Custom", TRUE,
                           calls[1].result.value) >>
        /\ alive
        /\ Total(received) < MaxRequests => ENABLED DeliverRequest
        /\ published < MaxPublishes => ENABLED DeliverPublish

\* C8 witness: after a Request whose handler raised, a Publish was dispatched
\* to its handler.
C8_Witness ==
    /\ raises > 0
    /\ cur.type = "Publish"
    /\ Len(calls) = 1
    /\ alive

\* C9, as claimed: a Request for a known method of this instance whose data
\* does not decode gets a BadArguments Reply carrying the raw data, and the
\* handler is not invoked.
C9_UndecodableIsBadArguments ==
    (/\ cur.type = "Request"
     /\ ~WrongIdentification(identification, cur)
     /\ cur.method \in Actions
     /\ Undecodable(cur)) =>
        /\ sent = << Reply(cur.id, FALSE, "", TRUE, "BadArguments", TRUE, cur.data) >>
        /\ calls = << >>

\* C10: a Request whose service_identification is set and differs from the
\* instance's is dropped: nothing sent, no handler invoked. Otherwise the
\* Request reaches the action lookup: an unknown method is answered
\* NoSuchMethod, a known one is decoded and its handler invoked (or the
\* decoding error answered).
C10_IdentificationFilter ==
    cur.type = "Request" =>
        IF cur.has_service_identification
              /\ cur.service_identification # identification
        THEN sent = << >> /\ calls = << >>
        ELSE IF cur.method \in Actions
             THEN Len(calls) = 1 \/ (Len(sent) = 1 /\ sent[1].error_type = "BadArguments")
             ELSE Len(sent) = 1 /\ sent[1].error_type = "NoSuchMethod"

\* C10 witness: a Request for identification "bar" reached instance "foo"
\* after a Request for "foo" had been answered.
C10_Witness ==
    /\ identification = "foo"
    /\ cur.type = "Request"
    /\ cur.has_service_identification
    /\ cur.service_identification = "bar"
    /\ Total(received) = 2
    /\ Total(replied) = 1

----------------------------------------------------------------------------
(* Claims on the blocking request (SpecRequest, LiveSpecRequest) *)

\* The envelope is the Reply to the request with this id.
Matching(id, m) == m.type = "Reply" /\ m.id = id

Mirror(kind) ==
    CASE kind = "Timeout" -> "RequestTimeout"
      [] kind = "NoSuchService" -> "NoSuchService"
      [] kind = "NoSuchMethod" -> "NoSuchMethod"
      [] kind = "BadArguments" -> "BadArguments"
      [] OTHER -> "ReplyError"

\* C6: a call ended by a Reply with an error raised the exception mirroring
\* the error kind; a call ended by a Reply without error returned.
C6_ErrorMirrorsKind ==
    rpc \in {"returned", "raised"} =>
        /\ Matching(req_id, last_reply)
        /\ IF last_reply.has_error
           THEN rpc = "raised" /\ outcome = Raise(Mirror(last_reply.error_type))
           ELSE rpc = "returned" /\ outcome.kind = "return"

\* C6 witness: the second call raised NoSuchMethod after the first one had
\* ended.
C6_Witness ==
    /\ ncalls = 2
    /\ rpc = "raised"
    /\ last_reply.error_type = "NoSuchMethod"
    /\ outcome.value = "NoSuchMethod"

----------------------------------------------------------------------------
(* Claims on the startup of a Service (SpecStartup, LiveSpecStartup) *)

\* The dependency wait is over and the completion callbacks have run.
CallbacksRun ==
    /\ spc \in {"async", "threading", "ready"}
    /\ \A d \in deps : cb_runs[d] = 1

\* The envelope is the list-services Request.
IsListServices(m) == m.type = "Request" /\ m.method = "list-services"

IsSubscribeNewService(m) == m.type = "Subscribe" /\ m.event = NewService

\* C2: with a broker that processes envelopes in order and announces every
\* registration made after the Subscribe, once every declared dependency is
\* registered - before the list-services call or after the Subscribe - the
\* wait loop is eventually left and the completion callbacks are run, also
\* when the announcement of a dependency was read and dropped by the
\* list-services request loop.
C2_DependencyWaitEnds ==
    (deps # {} /\ deps \subseteq registered) ~> CallbacksRun

\* C2 witness: the service is ready although the announcement of dependency
\* (test, 42) was dropped by the list-services request loop.
C2_Witness ==
    /\ spc = "ready"
    /\ deps = Dependencies
    /\ CallbacksRun
    /\ Publish(NewService, TRUE, Test42) \in discarded

\* C3: while a declared dependency was seen neither in the list-services
\* reply nor in a new-service Publish read by the wait loop, or is not
\* registered at all, the service is still before or in the wait loop: no
\* callback has run, the constructor has not returned, no Register was sent.
C3_NoPrematureSatisfied ==
    (\E d \in deps : d \notin observed \/ d \notin registered) =>
        /\ spc \in {"start", "listing", "waiting"}
        /\ \A d \in Dependencies : cb_runs[d] = 0
        /\ \A k \in 1..Len(sent_log) : sent_log[k].type # "Register"

\* C3 witness: the service waits for (test, 42) after it saw (servicea, "")
\* and the registration of (test, 12).
C3_Witness ==
    /\ spc = "waiting"
    /\ deps = Dependencies
    /\ services_unregistered = {Test42}
    /\ Test12 \in observed
    /\ inbox = << >>

\* C4: the list-services Request is written to the socket only after the
\* Subscribe for new-service, a startup with dependencies writes both, and no
\* registration is missed: when the service waits and nothing is in flight,
\* no dependency it waits for is registered.
C4_SubscribeBeforeList ==
    /\ \A j \in 1..Len(sent_log) :
         IsListServices(sent_log[j]) =>
            \E i \in 1..(j - 1) : IsSubscribeNewService(sent_log[i])
    /\ (deps # {} /\ spc # "start") =>
            \E j \in 1..Len(sent_log) : IsListServices(sent_log[j])
    /\ (spc = "waiting" /\ inbox = << >> /\ to_broker = << >>) =>
            services_unregistered \cap registered = {}

\* C4 witness: a dependency registered after the broker processed the
\* Subscribe and before it processed the list-services Request.
C4_Witness ==
    /\ spc = "listing"
    /\ Len(to_broker) = 1
    /\ IsListServices(to_broker[1])
    /\ inbox = << Publish(NewService, TRUE, Test42) >>
    /\ Test42 \in deps

----------------------------------------------------------------------------
(* Claims on the allocation of request ids (SpecAlloc) *)

PairwiseDistinct(ids) ==
    \A i, j \in 1..Len(ids) : i # j => ids[i] # ids[j]

\* No request() call is in progress.
AllIdle == \A t \in Callers : tpc[t] = "idle"

\* The counter advanced by one for every call that returned.
CounterAdvanced == (AllIdle /\ returned > 0) => seq_id = allocated[1] + returned

\* C11: when the request() calls on a client are made one after another
\* (none begins while another is in progress), the ids they were given are
\* pairwise distinct, and the counter advanced by one per call.
C11_SequentialIdsDistinct ==
    ~overlap => (PairwiseDistinct(allocated) /\ CounterAdvanced)

\* C11 witness: both threads called request(), four calls one after another.
C11_Witness ==
    /\ ~overlap
    /\ returned = 4
    /\ \A t \in Callers : tid[t] \in {allocated[k] : k \in 1..Len(allocated)}
    /\ tid[1] # tid[2]

\* C12, as claimed: whatever the interleaving of the threads, no two calls
\* obtain the same id and the counter advances by one per call.
C12_RaceFreeAllocation == PairwiseDistinct(allocated) /\ CounterAdvanced

----------------------------------------------------------------------------
(* Claims on the order of the startup (SpecStartup) *)

\* The positions of sent_log that hold an envelope of the given type.
SentAt(type) == { k \in 1..Len(sent_log) : sent_log[k].type = type }

\* The positions of sent_log that hold the Subscribe of a declared event.
EventSubscribes ==
    { k \in SentAt("Subscribe") :
        \E e \in 1..Len(ServiceEvents) : sent_log[k].event = ServiceEvents[e] }

\* C13: a Subscribe of a declared event is sent only after the dependency
\* wait is over and the callbacks have run; the Register is sent after the
\* Subscribe of every declared event; a worker thread is started only after
\* the Register; the workers are started in order, each once, and all of
\* them by the time the constructor returns.
C13_StartupOrder ==
    /\ EventSubscribes # {} =>
          /\ services_unregistered = {}
          /\ \A d \in deps : cb_runs[d] = 1
          /\ spc \in {"threading", "ready"}
    /\ \A j \in SentAt("Register") :
          \A e \in 1..Len(ServiceEvents) :
             \E i \in 1..(j - 1) :
                sent_log[i].type = "Subscribe" /\ sent_log[i].event = ServiceEvents[e]
    /\ threads # << >> => SentAt("Register") # {}
    /\ Cardinality(SentAt("Register")) <= 1
    /\ Len(threads) <= Len(ServiceThreads)
    /\ \A k \in 1..Len(threads) : threads[k] = ServiceThreads[k]
    /\ spc = "ready" => threads = ServiceThreads

\* C13 witness: a service with two dependencies is registered and has
\* started its first worker, not yet the second.
C13_Witness ==
    /\ spc = "threading"
    /\ deps = Dependencies
    /\ threads = << ServiceThreads[1] >>
    /\ SentAt("Register") # {}

----------------------------------------------------------------------------
(* Claims on the sockets and the loop of a process (SpecLoop) *)

C20_OneHandlerAtATime ==
    /\ [](running <= 1)
    /\ [][running > 0 => asyn_reads' = asyn_reads]_vars

\* C20 witness: a handler of the first service is executing while an
\* envelope for the second service waits on its socket.
C20_Witness ==
    /\ loop = "handler"
    /\ running = 1
    /\ asyn_reads[1] = 1
    /\ asyn_reads[2] = 0
    /\ queue[2] > 0

----------------------------------------------------------------------------
(* Claims on the framing (SpecAsynFrame, SpecSynFrame) *)

\* The number of bytes of the first k frames.
RECURSIVE EndOffset(_)
EndOffset(k) == IF k = 0 THEN 0 ELSE EndOffset(k - 1) + 4 + Len(frames_sent[k])

\* The number of frames whose last byte was received.
FramesReceived ==
    Cardinality({ k \in 1..Len(frames_sent) : EndOffset(k) <= nreceived })

\* The bytes received end with the last byte of a frame.
AtFrameBoundary == \E k \in 0..Len(frames_sent) : EndOffset(k) = nreceived

\* C15: whatever the chunks recv returns, the bodies handed to
\* on_message_recieved are exactly the frames whose last byte was received,
\* once each and in stream order; at a frame boundary the reader is in the
\* header phase, its buffer empty, expecting 4 bytes.
C15_AsynFraming ==
    /\ messages = Take(frames_sent, FramesReceived)
    /\ AtFrameBoundary =>
          chan = [terminator |-> 4, read_header |-> TRUE, ibuffer |-> << >>]

\* C15 witness: after a first frame was handed on, half of the header of
\* the second one was received and is buffered.
C15_Witness ==
    /\ Len(messages) = 1
    /\ Len(frames_sent) = 2
    /\ chan.read_header
    /\ chan.terminator = 2
    /\ Len(chan.ibuffer) = 2

\* C16, as claimed: for any split of a stream that has not ended, the frames
\* interpreted are the frames wholly received, each complete, and the call
\* does not fail: the bytes of a header or a body that arrive in several
\* recv results are put together.
C16_SynReassembles ==
    /\ Len(messages) <= Len(frames_sent)
    /\ messages = Take(frames_sent, Len(messages))
    /\ ~eof => sy_pc # "raised"
    /\ (~eof /\ wire = << >>) => messages = frames_sent

\* C17, as claimed: once the stream has ended and its last byte was
\* received, the call ends by raising.
C17_ClosedStreamRaises ==
    (eof /\ wire = << >>) ~> (sy_pc = "raised")

----------------------------------------------------------------------------
(* Claims on the fan-out of a Publish (SpecFanout) *)

Count(seq, x) == Cardinality({ k \in 1..Len(seq) : seq[k] = x })

\* The times the callback was invoked for the Publish dispatched last.
Invoked(cb) ==
    Cardinality({ k \in 1..Len(fan_calls) : fan_calls[k].method = cb })

RECURSIVE MatchingCount(_, _, _)
MatchingCount(cb, event, ks) ==
    IF ks = {} THEN 0
    ELSE LET k == CHOOSE x \in ks : TRUE
         IN  (IF fnmatch(event, Patterns[k]) THEN Count(events_pattern_cb[k], cb) ELSE 0)
             + MatchingCount(cb, event, ks \ {k})

\* The registrations of the callback that the event concerns: those for the
\* exact name, and those for each pattern that matches it.
Expected(cb, event) ==
    (IF event \in ExactNames THEN Count(events_cb[event], cb) ELSE 0)
    + MatchingCount(cb, event, 1..Len(Patterns))

CodingErrors ==
    Cardinality({ k \in 1..Len(fan_sent) :
                    fan_sent[k].type = "Publish" /\ fan_sent[k].event = "log.coding-error" })

RaisedCalls ==
    Cardinality({ k \in 1..Len(fan_calls) : fan_calls[k].result.kind = "raise" })

\* C19: when the handlers of a Service are called for a Publish and some of
\* them raise, nothing leaves the dispatch, every handler registered for the
\* event is invoked, and one report per handler that raised is published
\* on 'log.coding-error'.
C19_HandlerErrorsCaught ==
    (wrapping /\ fan_pub # NoMessage /\ RaisedCalls > 0) =>
        /\ ~fan_closed
        /\ \A cb \in Callbacks : Invoked(cb) = Expected(cb, fan_pub.event)
        /\ CodingErrors = RaisedCalls

\* C19 witness: the first of two handlers of an event raised, the second
\* was called after it and returned; one report was published.
C19_Witness ==
    /\ wrapping
    /\ Len(fan_calls) = 2
    /\ fan_calls[1].result.kind = "raise"
    /\ fan_calls[2].result.kind = "return"
    /\ CodingErrors = 1

----------------------------------------------------------------------------
(* Claims on the data of a Reply (SpecReplyData) *)

\* The handler ran and returned (a value that json.dumps accepts, or None).
HandlerSucceeded ==
    /\ rd_wire # << >>
    /\ ~Head(rd_wire).has_error

\* C22: the Reply to a successfully executed handler carries data exactly
\* when the handler returned something other than None - the falsy values
\* 0, False, '', [] and {} included - and the blocking caller gets None
\* exactly when the Reply has no data field, else the data of the Reply.
C22_DataIffNotNone ==
    /\ (rd_pc \in {"sent", "read"} /\ HandlerSucceeded) =>
          /\ Len(rd_wire) = 1
          /\ Head(rd_wire).has_data <=> (rd_out.value # "None")
          /\ Head(rd_wire).has_data => Head(rd_wire).data = json_dumps(rd_out.value)
    /\ (rd_pc = "read" /\ HandlerSucceeded) =>
          /\ rd_result.kind = "return"
          /\ (rd_result.value = "None") <=> ~Head(rd_wire).has_data
          /\ Head(rd_wire).has_data => rd_result.value = Head(rd_wire).data

\* A handler returned a falsy value and the caller received its encoding.
C22_Witness ==
    /\ rd_pc = "read"
    /\ HandlerSucceeded
    /\ rd_out.value \in FalsyReturns
    /\ rd_result = Return(json_dumps(rd_out.value))

----------------------------------------------------------------------------
(* Claims on non-blocking requests (SpecCorrelate) *)

\* C21: request() returns the id it allocated without reading the socket
\* (every Reply the broker sent is still on the socket or was dispatched by
\* the loop), and once the Reply with an id that has a completion callback
\* was dispatched, that callback was invoked exactly once and its entry is
\* gone from the mapping.
C21_ReplyCompletesCallback ==
    /\ Len(co_socket) + Cardinality(co_dispatched) = Cardinality(co_answered)
    /\ \A i \in co_dispatched \cap co_registered :
         /\ co_invoked[i] = 1
         /\ i \notin co_reply_cb

----------------------------------------------------------------------------
(* Claims on ConfigVariable (SpecConfig) *)

\* C23: once the service has started and nothing is in flight (the broker
\* processed what the service wrote, the loop dispatched what the socket
\* held), the ConfigVariable holds the current value of the option: no
\* update made after the 'get' was answered is missed.
C23_AlwaysUpToDate ==
    (cf_pc = "ready" /\ cf_to_broker = << >> /\ cf_socket = << >>)
        => cf_value = cf_option

----------------------------------------------------------------------------
(* Claims on envelopes unrelated to the dependency wait (SpecStartup) *)

IsNewServicePublish(m) == m.type = "Publish" /\ m.event = NewService

\* C24: when the wait loop reads an envelope that is not a Publish of
\* 'log.cellaserv.new-service' (another Publish, or no Publish at all), the
\* set of dependencies waited for is unchanged, no callback runs, and the
\* constructor is still waiting: it neither goes on nor fails.
C24_StrayIgnoredInWait ==
    [][(/\ spc = "waiting"
        /\ inbox # << >>
        /\ inbox' = Tail(inbox)
        /\ ~IsNewServicePublish(Head(inbox)))
         => (/\ services_unregistered' = services_unregistered
             /\ cb_runs' = cb_runs
             /\ observed' = observed
             /\ spc' = "waiting")]_vars

\* The wait loop has read an unrelated envelope (none was dropped while the
\* list was requested, none is left to read) and is still waiting.
C24_Witness ==
    /\ spc = "waiting"
    /\ strays > 0
    /\ discarded = {}
    /\ inbox = << >>
    /\ services_unregistered # {}

----------------------------------------------------------------------------
(* Claims on the frames a Service writes (SpecPush) *)

\* C25: on the socket of a Service every length header is immediately
\* followed by the body of its own frame (the header pushed last may still
\* wait for its body), also while a worker thread and the dispatch loop
\* both send.
C25_FramesNotInterleaved ==
    \A k \in 1..Len(ps_fifo) :
        ps_fifo[k].part = "header" =>
            \/ k = Len(ps_fifo)
            \/ ps_fifo[k + 1] = Chunk(ps_fifo[k].frame, "body")

----------------------------------------------------------------------------
(* Claims on a SynClient shared by two callers (SpecShared) *)

\* Caller u has read and discarded the Reply to the call caller t is making.
LostTo(t, u) == sh_pc[t] # "idle" /\ Dropped(u, [id |-> sh_id[t]]) \in sh_dropped

\* C26: with two callers blocked on one SynClient, a caller ends its call
\* only on the Reply with its own id and discards the Reply of the other
\* one it reads; a Reply discarded this way is gone from the socket, and the
\* caller it was for is still waiting although the broker answered it.
C26_CrossTalkLosesReply ==
    /\ \A t \in Callers :
         sh_pc[t] \in {"returned", "raised"} => sh_got[t].id = sh_id[t]
    /\ \A t \in Callers : \A u \in Callers \ {t} :
         LostTo(t, u) =>
           /\ sh_id[t] \in sh_answered
           /\ \A k \in 1..Len(sh_socket) : sh_socket[k].id # sh_id[t]
           /\ sh_pc[t] = "waiting"

\* Caller 2 read the Reply for caller 1 and discarded it, then got its own
\* Reply and returned; caller 1 waits on an empty socket.
C26_Witness ==
    /\ LostTo(1, 2)
    /\ sh_pc[2] = "returned"
    /\ sh_pc[1] = "waiting"
    /\ sh_socket = << >>

----------------------------------------------------------------------------
(* Claims on a Publish whose data does not decode (SpecDispatch) *)

\* The Publish dispatched last is for a declared event and its data is not JSON.
UndecodablePublish ==
    /\ cur.type = "Publish"
    /\ cur.event \in Events
    /\ cur.has_data
    /\ (~Utf8Valid(cur.data) \/ JsonType(cur.data) = "ValueError")

\* C27: a Publish whose data is not valid JSON is dispatched with the raw
\* bytes handed to the handler; no exception reaches the dispatch loop, so
\* the service goes on and its connection stays open.
C27_UndecodablePublishPassedRaw ==
    UndecodablePublish =>
        /\ alive
        /\ \E k \in 1..Len(calls) : calls[k].args = << Value("bytes", cur.data) >>

----------------------------------------------------------------------------
(* Claims on the callbacks of the dependencies (SpecLoop) *)

\* The constructor of instance i has returned.
Started(i) == constructing > i

\* C28: the startup of each instance invokes the initial-value fetch of the
\* ConfigVariable of its class exactly once (and not at all for a class
\* without one), also for the second and later instances of the class.
C28_FetchOncePerStartup ==
    \A i \in Instances :
        Started(i) => fetches[i] = IF has_config THEN 1 ELSE 0

----------------------------------------------------------------------------
(* Claims on the set of dependencies (SpecStartup) *)

\* The dependency wait of the constructor is over.
WaitCompleted == spc \in {"satisfied", "async", "threading", "ready"}

----------------------------------------------------------------------------
(* Claims on the range of the request ids (SpecIdRange) *)

\* C30: every value request() takes for the id of a Request is a valid
\* unsigned 32-bit value, whatever the seed and however many requests the
\* client has made.
C30_IdsAreUint32 ==
    \A k \in 1..Len(ir_assigned) : IsUint32(ir_assigned[k])

----------------------------------------------------------------------------
(* Claims on the arguments of a handler (SpecArgs) *)

\* The arguments the claim names for the data of a Request.
PositionalFor(req) ==
    IF ~req.has_data THEN << >>
    ELSE CASE req.data = B_LIST -> << Value("int", "1"), Value("int", "2") >>
           [] req.data = B_DICT -> << >>
           [] req.data = B_INT -> << Value("int", B_INT) >>
           [] req.data = B_NULL -> << Value("NoneType", B_NULL) >>
           [] req.data = B_STR -> << Value("str", B_STR) >>
           [] OTHER -> << Value("bytes", req.data) >>

KeywordsFor(req) ==
    IF req.has_data /\ req.data = B_DICT
    THEN << << "a", Value("int", "1") >> >>
    ELSE << >>

\* C31: on_request passes a decoded list as the positional arguments, a
\* decoded object as the keyword arguments, any other decoded value as one
\* positional argument and absent data as no argument at all; the handler
\* is called bound to the instance that received the Request.
C31_ArgumentBinding ==
    \A k \in 1..Len(ar_log) :
        /\ ar_log[k].bound.self = ar_log[k].to
        /\ ar_log[k].bound.func = ar_log[k].req.method
        /\ ar_log[k].args = PositionalFor(ar_log[k].req)
        /\ ar_log[k].kwargs = KeywordsFor(ar_log[k].req)

\* Both instances were called, one with a list and one with another value.
C31_Witness ==
    /\ Len(ar_log) = 2
    /\ ar_log[1].to = "foo" /\ ar_log[1].req.has_data /\ ar_log[1].req.data = B_LIST
    /\ Len(ar_log[1].args) = 2
    /\ ar_log[2].to = "bar" /\ ar_log[2].req.has_data /\ ar_log[2].req.data = B_INT
    /\ Len(ar_log[2].args) = 1

----------------------------------------------------------------------------
(* Claims on the tables of a Service (SpecTables) *)

\* The four tables: the action table, the event table and the two maps
\* from an event name or a pattern to its callbacks.
Tables == <<tb_actions, tb_events, tb_events_cb, tb_events_pattern_cb>>

\* C32: dispatching a Request or a Publish leaves the action table, the
\* event table and the maps from names and patterns to callbacks as they
\* were, same keys and same lists, also when the event has no subscriber.
C32_DispatchLeavesTables == [][Tables' = Tables]_vars

\* The step dispatches a Reply whose id has no completion callback.
DropsReply ==
    /\ tb_dispatched' = tb_dispatched + 1
    /\ tb_cur'.type = "Reply"
    /\ tb_cur'.id \notin tb_reply_cb

\* C35: a Reply whose id has no registered callback is dropped and is no
\* error: no callback is invoked, nothing is sent, the reader and the tables
\* are as before, and the channel stays open for the envelopes that follow.
C35_UnmatchedReplyDropped ==
    [][DropsReply =>
          /\ tb_invoked' = tb_invoked
          /\ tb_calls' = << >>
          /\ tb_sent' = << >>
          /\ tb_chan' = tb_chan /\ tb_chan' = HeaderState
          /\ Tables' = Tables
          /\ tb_reply_cb' = tb_reply_cb
          /\ tb_open']_vars

\* A Reply was dropped, and the Request that came after it was answered.
C35_Witness ==
    /\ tb_replies = 1
    /\ tb_dispatched = 2
    /\ tb_cur.type = "Request"
    /\ Len(tb_calls) = 1
    /\ Len(tb_sent) = 1
    /\ tb_open

----------------------------------------------------------------------------
(* Claims on the declared events (SpecEvents) *)

\* The class declares the member.
Declares(name) == \E k \in 1..Len(ev_class) : ev_class[k].name = name

\* The metaclass has built the tables of the class.
ClassBuilt == ev_pc \in {"built", "ready", "closed"}

\* The member is stored in the event table.
InEventTable(name) == \E e \in DOMAIN ev_events : ev_events[e].member = name

\* The last Publish dispatched made the member run.
Ran(name) == \E k \in 1..Len(ev_calls) : ev_calls[k].method.member = name

\* A Publish with keyword data has been dispatched last.
Received(pub) == pub.type = "Publish" /\ HasKeywordData(pub)

\* C33: when a class binds two handlers to the same event, both are in
\* the event table and both run for each Publish of that event.
C33_BothHandlersBound ==
    (Declares("a") /\ Declares("b") /\ ClassBuilt) =>
        /\ InEventTable("a") /\ InEventTable("b")
        /\ (Received(ev_pub) /\ ev_pub.event = N_X) => (Ran("a") /\ Ran("b"))

\* C34: a handler declared for a glob pattern runs for every Publish
\* received whose event matches the pattern, not only for the Publish whose
\* event is the pattern itself.
C34_PatternHandlerRuns ==
    (Declares("on_log") /\ Received(ev_pub) /\ fnmatch(ev_pub.event, P_LSTAR)) =>
        Ran("on_log")

\* The Event fields the class declares.
DeclaredFields == { f \in FieldNames : Declares(f) }

\* The Event is as the Publish `last` leaves it.
Follows(f, last) ==
    IF last.role = "none" THEN ev_fields[f] = NewEvent
    ELSE /\ ev_fields[f].is_set <=> last.role = "set"
         /\ ev_fields[f].data = last.data

----------------------------------------------------------------------------
(* Claims on the data field of the envelopes sent (SpecPayload) *)

\* C36: request(), publish() and reply_to() called with the empty byte
\* string send an envelope whose data field is present and empty, which
\* differs from the envelope they send when no data is given.
C36_EmptyPayloadIsPresent ==
    \A k \in 1..Len(pl_log) :
        /\ pl_log[k].data = "" =>
               pl_log[k].envelope.has_data /\ pl_log[k].envelope.data = ""
        /\ pl_log[k].data = "None" => ~pl_log[k].envelope.has_data
        /\ \A j \in 1..Len(pl_log) :
               (pl_log[j].op = pl_log[k].op /\ pl_log[j].data = "None"
                  /\ pl_log[k].data = "") =>
                   pl_log[j].envelope.has_data # pl_log[k].envelope.has_data

----------------------------------------------------------------------------
(* Claims on frames of length 0 (SpecZeroFrame) *)

\* C37: a frame whose length prefix is 0 is handed on once as an empty
\* message and the reader expects a header again, so the frames after it
\* are delimited and handed on as they were sent.
C37_ZeroLengthFrame ==
    /\ messages = Take(frames_sent, FramesReceived)
    /\ AtFrameBoundary => chan = HeaderState

----------------------------------------------------------------------------
(* Claims on the text-mode client *)

\* The bytes the client has received.
TextReceived == Take(EncodeLines(tx_sent), tx_nreceived)

\* The number of lines ended among the bytes received.
LinesEnded == Cardinality({k \in 1..Len(TextReceived) : TextReceived[k] = NL})

\* The encoding of a message holds no newline.
SingleLine(message) ==
    \A k \in 1..Len(text_dumps(message)) : text_dumps(message)[k] # NL

\* C39: in text mode each message sent is one line, its JSON encoding with
\* no raw newline followed by one newline; however the bytes are split
\* between reads, the text-mode AsynClient has handed to message_recieved
\* exactly the messages whose line has ended, in the order sent and each
\* equal to the message encoded, and the channel stays open.
C39_TextLines ==
    /\ \A k \in 1..Len(tx_sent) : SingleLine(tx_sent[k])
    /\ tx_wire = Drop(EncodeLines(tx_sent), tx_nreceived)
    /\ tx_open
    /\ tx_delivered = Take(tx_sent, LinesEnded)
    /\ tx_ibuffer \o tx_wire =
           EncodeLines(Drop(tx_sent, LinesEnded))

\* A message whose name holds a newline was delivered and the line of the
\* next one, whose name is a backslash and an n, is received in part.
C39_Witness ==
    /\ Len(tx_sent) = 2
    /\ tx_delivered = << Notify(<< "a", NL, "b" >>) >>
    /\ tx_sent[2] = Notify(<< BSL, "n" >>)
    /\ tx_ibuffer # << >>
    /\ tx_wire # << >>

\* The calls made for the notify messages.
NotifyCalls == SelectSeq(tx_called, LAMBDA c : c.message.command = "notify")

\* C40: a callback given to connect_notify(N, cb) is called with the message
\* each time a notify message for N is received, and for no other
\* notification.
C40_NotifyCallbackCalled == NotifyCalls = tx_expected

====
